---- MODULE Spec2Model ----
(***************************************************************************)
(* The transaction memory pool CTxMemPool of src/src/txmempool.cpp: the    *)
(* Primary Index mapTx, the Spend Index mapNextTx, the two shielded        *)
(* nullifier indexes, the recently-added side-list, the prioritisation     *)
(* tables and the aggregate counters, with addUnchecked, the removal       *)
(* family built on remove(), and clear().                                  *)
(*                                                                         *)
(* An operation that takes the pool lock cs for its whole body is a single *)
(* atomic action.  NotifyRecentlyAdded, which releases the lock between    *)
(* its blocks, is one action per block, and SpecConc runs addUnchecked and *)
(* remove statement by statement under the lock next to the operations     *)
(* that read with and without it.  A transaction is identified with its    *)
(* hash; a pointer to a pooled transaction is the hash of the transaction  *)
(* it was taken from, and it dangles when that hash is no longer in mapTx. *)
(***************************************************************************)
EXTENDS Integers, Sequences, FiniteSets, TLC

(***************************************************************************)
(* Bounds of the exploration.                                              *)
(***************************************************************************)
\* cap of the update counter nTransactionsUpdated
MaxUpdated == 6
\* largest argument given to AddTransactionsUpdated
MaxAddN == 1
\* cap of the PrioritiseTransaction calls the prioritisation table remembers
MaxPrioritise == 2
\* cap of the update counter while the prioritisation table is explored
MaxPrioUpdated == 3
\* cap of the update counter while the address and spent indexes are explored
MaxIndexUpdated == 4
\* cap of the update counter while the coins view overlay is explored
MaxViewUpdated == 3
\* cap of the update counter while NotifyRecentlyAdded is explored
MaxNotifyUpdated == 3
\* cap of the update counter while addUnchecked and remove are explored
\* statement by statement
MaxConcUpdated == 3
\* cap of the update counter while check() is explored
MaxCheckUpdated == 4
\* the longest list waitingOnDependants the loop over it is started from
MaxWaiting == 3
\* cap of the update counter while addUnchecked is called without the
\* checks of the acceptance pipeline
MaxRawUpdated == 3

\* the most nTransactionsUpdated may reach in the exploration of the walk order
MaxWalkUpdated == 6

\* the most nTransactionsUpdated may reach with two notifying threads
MaxPeerUpdated == 2

(***************************************************************************)
(* The transactions of the exploration.  Hash 0 is a confirmed transaction *)
(* of the chain and hash 9 a burn transaction of another chain; hashes     *)
(* 1..6 are the transactions that may enter the pool:                      *)
(*   1  spends chain output (0,0), has two outputs                         *)
(*   2  spends (1,0), Sprout nullifiers 1 2      child of 1                *)
(*   3  spends (2,0) and (1,1), Sapling nullifier 1                        *)
(*                                               child of 2 and of 1       *)
(*   4  spends (0,0), Sprout nullifier 1         conflicts with 1 and 2    *)
(*   5  spends (4,0), Sapling nullifier 1        child of 4, conflicts     *)
(*                                               with 3                    *)
(*   6  coin import of burn 9                                              *)
(***************************************************************************)
TxTable ==
  << [vin |-> << <<0, 0>> >>, nvout |-> 2, vJoinSplit |-> << >>,
      vShieldedSpend |-> << >>, fCoinImport |-> FALSE,
      nTxSize |-> 2, nUsageSize |-> 3, nExpiryHeight |-> 0,
      nLockTime |-> 0, spendsCoinbase |-> TRUE, nBranchId |-> 1],
     [vin |-> << <<1, 0>> >>, nvout |-> 1,
      vJoinSplit |-> << [anchor |-> 1, nullifiers |-> << 1, 2 >>] >>,
      vShieldedSpend |-> << >>, fCoinImport |-> FALSE,
      nTxSize |-> 1, nUsageSize |-> 2, nExpiryHeight |-> 2,
      nLockTime |-> 0, spendsCoinbase |-> FALSE, nBranchId |-> 1],
     [vin |-> << <<2, 0>>, <<1, 1>> >>, nvout |-> 1, vJoinSplit |-> << >>,
      vShieldedSpend |-> << [anchor |-> 1, nullifier |-> 1] >>,
      fCoinImport |-> FALSE,
      nTxSize |-> 3, nUsageSize |-> 5, nExpiryHeight |-> 0,
      nLockTime |-> 2, spendsCoinbase |-> FALSE, nBranchId |-> 2],
     [vin |-> << <<0, 0>> >>, nvout |-> 1,
      vJoinSplit |-> << [anchor |-> 2, nullifiers |-> << 1 >>] >>,
      vShieldedSpend |-> << >>, fCoinImport |-> FALSE,
      nTxSize |-> 4, nUsageSize |-> 4, nExpiryHeight |-> 0,
      nLockTime |-> 0, spendsCoinbase |-> TRUE, nBranchId |-> 1],
     [vin |-> << <<4, 0>> >>, nvout |-> 1, vJoinSplit |-> << >>,
      vShieldedSpend |-> << [anchor |-> 2, nullifier |-> 1] >>,
      fCoinImport |-> FALSE,
      nTxSize |-> 5, nUsageSize |-> 7, nExpiryHeight |-> 3,
      nLockTime |-> 0, spendsCoinbase |-> FALSE, nBranchId |-> 2],
     [vin |-> << <<9, 0>> >>, nvout |-> 1, vJoinSplit |-> << >>,
      vShieldedSpend |-> << >>, fCoinImport |-> TRUE,
      nTxSize |-> 1, nUsageSize |-> 1, nExpiryHeight |-> 0,
      nLockTime |-> 0, spendsCoinbase |-> FALSE, nBranchId |-> 1] >>

\* the hashes of the transactions above
TxIds == DOMAIN TxTable

\* two more transactions, for the order of remove()'s walk:
\*   7  spends (1,1)                 child of 1
\*   8  spends (1,0) and (7,0)       child of 1 and of 7
WalkTable ==
  << [vin |-> << <<1, 1>> >>, nvout |-> 1, vJoinSplit |-> << >>,
      vShieldedSpend |-> << >>, fCoinImport |-> FALSE,
      nTxSize |-> 2, nUsageSize |-> 2, nExpiryHeight |-> 0,
      nLockTime |-> 0, spendsCoinbase |-> FALSE, nBranchId |-> 1],
     [vin |-> << <<1, 0>>, <<7, 0>> >>, nvout |-> 1, vJoinSplit |-> << >>,
      vShieldedSpend |-> << >>, fCoinImport |-> FALSE,
      nTxSize |-> 3, nUsageSize |-> 4, nExpiryHeight |-> 0,
      nLockTime |-> 0, spendsCoinbase |-> FALSE, nBranchId |-> 1] >>

\* every transaction of the model, by hash
AllTxTable == TxTable \o WalkTable

\* the transaction with a given hash
Tx(hash) == AllTxTable[hash]

\* the elements of a sequence
Range(s) == {s[i] : i \in DOMAIN s}

\* CTransaction::IsCoinImport
IsCoinImport(hash) == Tx(hash).fCoinImport

\* the transparent outpoints tx.vin[i].prevout of each transaction
PrevoutsTable == [h \in DOMAIN AllTxTable |-> Range(AllTxTable[h].vin)]

\* the transparent outpoints a transaction spends
Prevouts(hash) == PrevoutsTable[hash]

\* the Sprout nullifiers of each transaction: those of all its joinsplits
SproutNullifiersTable ==
  [h \in DOMAIN AllTxTable |->
     UNION {Range(AllTxTable[h].vJoinSplit[j].nullifiers) :
              j \in DOMAIN AllTxTable[h].vJoinSplit}]

\* the Sprout nullifiers a transaction spends
SproutNullifiers(hash) == SproutNullifiersTable[hash]

\* the Sapling nullifiers of each transaction: one per shielded spend
SaplingNullifiersTable ==
  [h \in DOMAIN AllTxTable |->
     {AllTxTable[h].vShieldedSpend[j].nullifier :
        j \in DOMAIN AllTxTable[h].vShieldedSpend}]

\* the Sapling nullifiers a transaction spends
SaplingNullifiers(hash) == SaplingNullifiersTable[hash]

\* std::map::erase(key)
MapErase(m, keys) == [k \in DOMAIN m \ keys |-> m[k]]

\* std::map::operator[](key) = value, for every key of the function v
MapPut(m, v) ==
  [k \in DOMAIN m \cup DOMAIN v |-> IF k \in DOMAIN v THEN v[k] ELSE m[k]]

\* the sum of the serialized sizes of a set of transactions
RECURSIVE SumTxSize(_)
SumTxSize(S) ==
  IF S = {} THEN 0
  ELSE LET x == CHOOSE y \in S : TRUE IN Tx(x).nTxSize + SumTxSize(S \ {x})

\* the sum of the memory usage of a set of transactions
RECURSIVE SumUsageSize(_)
SumUsageSize(S) ==
  IF S = {} THEN 0
  ELSE LET x == CHOOSE y \in S : TRUE IN Tx(x).nUsageSize + SumUsageSize(S \ {x})

(***************************************************************************)
(* The pool.  removed is the caller's list after the last call that takes  *)
(* one, and lastOp records the last operation.  prioritised is a history   *)
(* variable: for every hash with an entry in mapDeltas, the arguments of   *)
(* the PrioritiseTransaction calls made since the entry was created.       *)
(* config holds the settings of the process, fixed when it starts: the     *)
(* network being regtest and the globals fAddressIndex and fSpentIndex.    *)
(* base is the coins view behind the overlay CCoinsViewMemPool: the coins  *)
(* it holds by transaction hash and the nullifiers it reports spent.       *)
(* notify holds the position and the local variables of the thread that    *)
(* calls NotifyRecentlyAdded.  conc holds the lock cs and the threads of    *)
(* the statement-level exploration.  estimator is the data the fee         *)
(* estimator loads from and saves to the estimates file; what the calls    *)
(* to processTransaction, removeTx and processBlock do to the estimator is *)
(* not followed.  audit holds nCheckFrequency and the local variables of   *)
(* a call of check().  peer is a second thread that calls                  *)
(* NotifyRecentlyAdded, held like notify.                                  *)
(***************************************************************************)
VARIABLES mapTx, mapNextTx, mapSproutNullifiers, mapSaplingNullifiers,
          mapRecentlyAddedTx, nRecentlyAddedSequence, nNotifiedSequence,
          nTransactionsUpdated, totalTxSize, cachedInnerUsage,
          mapDeltas, mapReserveTransactions, removed, lastOp, prioritised,
          mapAddress, mapAddressInserted, mapSpent, mapSpentInserted, config,
          base, notify, conc, estimator, audit, peer

vars == <<mapTx, mapNextTx, mapSproutNullifiers, mapSaplingNullifiers,
          mapRecentlyAddedTx, nRecentlyAddedSequence, nNotifiedSequence,
          nTransactionsUpdated, totalTxSize, cachedInnerUsage,
          mapDeltas, mapReserveTransactions, removed, lastOp, prioritised,
          mapAddress, mapAddressInserted, mapSpent, mapSpentInserted, config,
          base, notify, conc, estimator, audit, peer>>

\* the members of CTxMemPool as one value.  The last field is not a member:
\* it tells, for the call under way, which pooled entries no longer hold
\* their hash in their storage once mapTx.erase has freed it
Pool ==
  [mapTx |-> mapTx, mapNextTx |-> mapNextTx,
   mapSproutNullifiers |-> mapSproutNullifiers,
   mapSaplingNullifiers |-> mapSaplingNullifiers,
   mapRecentlyAddedTx |-> mapRecentlyAddedTx,
   nRecentlyAddedSequence |-> nRecentlyAddedSequence,
   nNotifiedSequence |-> nNotifiedSequence,
   nTransactionsUpdated |-> nTransactionsUpdated,
   totalTxSize |-> totalTxSize, cachedInnerUsage |-> cachedInnerUsage,
   mapDeltas |-> mapDeltas, mapReserveTransactions |-> mapReserveTransactions,
   mapAddress |-> mapAddress, mapAddressInserted |-> mapAddressInserted,
   mapSpent |-> mapSpent, mapSpentInserted |-> mapSpentInserted,
   overwritten |-> {}]

\* the pool of the next state is p
Becomes(p) ==
  /\ mapTx' = p.mapTx
  /\ mapNextTx' = p.mapNextTx
  /\ mapSproutNullifiers' = p.mapSproutNullifiers
  /\ mapSaplingNullifiers' = p.mapSaplingNullifiers
  /\ mapRecentlyAddedTx' = p.mapRecentlyAddedTx
  /\ nRecentlyAddedSequence' = p.nRecentlyAddedSequence
  /\ nNotifiedSequence' = p.nNotifiedSequence
  /\ nTransactionsUpdated' = p.nTransactionsUpdated
  /\ totalTxSize' = p.totalTxSize
  /\ cachedInnerUsage' = p.cachedInnerUsage
  /\ mapDeltas' = p.mapDeltas
  /\ mapReserveTransactions' = p.mapReserveTransactions
  /\ mapAddress' = p.mapAddress
  /\ mapAddressInserted' = p.mapAddressInserted
  /\ mapSpent' = p.mapSpent
  /\ mapSpentInserted' = p.mapSpentInserted

\* the history of the calls for the hashes whose mapDeltas entry an
\* operation that creates none has left in place
Forgets ==
  prioritised' = [h \in DOMAIN prioritised \cap DOMAIN mapDeltas' |-> prioritised[h]]

\* an operation of the pool leaves the settings of the process, the backing
\* coins view and the threads alone
Idle == UNCHANGED <<config, base, notify, conc, estimator, audit, peer>>

\* the record of an operation: its name and, for remove, its fRecursive
\* argument and whether it found origTx in mapTx
Op(name, fRecursive, fPooled) ==
  [op |-> name, fRecursive |-> fRecursive, fPooled |-> fPooled]

\* the pool after construction: empty indexes, counters at zero
InitPool ==
  /\ mapTx = {}
  /\ mapNextTx = << >>
  /\ mapSproutNullifiers = << >>
  /\ mapSaplingNullifiers = << >>
  /\ mapRecentlyAddedTx = {}
  /\ nRecentlyAddedSequence = 0
  /\ nNotifiedSequence = 0
  /\ nTransactionsUpdated = 0
  /\ totalTxSize = 0
  /\ cachedInnerUsage = 0
  /\ mapDeltas = << >>
  /\ mapReserveTransactions = {}
  /\ removed = << >>
  /\ lastOp = Op("init", FALSE, FALSE)
  /\ prioritised = << >>
  /\ mapAddress = {}
  /\ mapAddressInserted = << >>
  /\ mapSpent = << >>
  /\ mapSpentInserted = << >>

\* the settings a process may run with
Configs ==
  [regtest : BOOLEAN, fAddressIndex : BOOLEAN, fSpentIndex : BOOLEAN]

\* the thread that calls NotifyRecentlyAdded, outside the call
NotifyIdle == [pc |-> "idle", recentlyAddedSequence |-> 0, txs |-> << >>]

\* check() not running, in a pool whose checks are switched off.  pc is
\* "loop" inside the loop over waitingOnDependants and "asserted" when an
\* assertion has failed, line being its line; available holds the outpoints
\* mempoolDuplicate has coins for; replayed, iterations and entry are
\* history: the transactions UpdateCoins was called for, the passes through
\* the loop, and waitingOnDependants and the outpoints when the loop began
NoAudit ==
  [nCheckFrequency |-> 0, pc |-> "idle", line |-> 0, waiting |-> << >>,
   available |-> {}, stepsSinceLastRemove |-> 0, replayed |-> {},
   iterations |-> 0, entry |-> [waiting |-> << >>, available |-> {}]]

\* the fee estimator before any estimates file was read
NoEstimates == 0

\* the lock and the threads with no call under way.  cs is the call that
\* holds the lock, op, pc, hash and o the call of the writing thread, the
\* line of its next statement, its transaction and the entries it reads back
\* overwritten; committed is the pool as the calls completed so far leave it
\* when each runs alone and done their number; seen is the last value the
\* reading thread got from GetTransactionsUpdated and logged tells that the
\* thread in check() is past its LogPrint
Quiescent(p) ==
  [cs |-> "", op |-> "", pc |-> 0, hash |-> 0, o |-> {}, committed |-> p,
   done |-> 0, seen |-> 0, logged |-> FALSE]

\* no thread is followed
NoThreads == Quiescent(<< >>)

\* a coins view that holds nothing
EmptyView ==
  [coins |-> << >>, nullifiers |-> [SPROUT |-> {}, SAPLING |-> {}]]

\* a regtest process with both optional indexes enabled, over an empty
\* backing view
Init ==
  /\ InitPool
  /\ config = [regtest |-> TRUE, fAddressIndex |-> TRUE, fSpentIndex |-> TRUE]
  /\ base = EmptyView
  /\ notify = NotifyIdle
  /\ estimator = NoEstimates
  /\ peer = NotifyIdle
  /\ audit = NoAudit
  /\ conc = NoThreads

(***************************************************************************)
(* addUnchecked                                                            *)
(***************************************************************************)
\* the Spend Index entries addUnchecked writes for a transaction
NextTxOf(hash) ==
  IF IsCoinImport(hash) THEN {} ELSE Prevouts(hash)

\* the position of the last input of a transaction that spends outpoint o
LastInputAt(hash, o) ==
  CHOOSE i \in DOMAIN Tx(hash).vin :
    /\ Tx(hash).vin[i] = o
    /\ \A j \in DOMAIN Tx(hash).vin : Tx(hash).vin[j] = o => j <= i

\* addUnchecked without its loop over vShieldedSpend
AddUncheckedPool_NoSapling(p, hash) ==
  LET inpoint(o) == [ptx |-> hash, n |-> LastInputAt(hash, o) - 1]
  IN [p EXCEPT
        !.mapTx = @ \cup {hash},
        !.mapRecentlyAddedTx = @ \cup {hash},
        !.nRecentlyAddedSequence = @ + 1,
        !.mapNextTx = MapPut(@, [o \in NextTxOf(hash) |-> inpoint(o)]),
        !.mapSproutNullifiers = MapPut(@, [nf \in SproutNullifiers(hash) |-> hash]),
        !.nTransactionsUpdated = @ + 1,
        !.totalTxSize = @ + Tx(hash).nTxSize,
        !.cachedInnerUsage = @ + Tx(hash).nUsageSize]

\* CTxMemPool::addUnchecked(hash, entry): bookkeeping only
AddUncheckedPool(p, hash) ==
  LET inpoint(o) == [ptx |-> hash, n |-> LastInputAt(hash, o) - 1]
  IN [p EXCEPT
        !.mapTx = @ \cup {hash},
        !.mapRecentlyAddedTx = @ \cup {hash},
        !.nRecentlyAddedSequence = @ + 1,
        !.mapNextTx = MapPut(@, [o \in NextTxOf(hash) |-> inpoint(o)]),
        !.mapSproutNullifiers = MapPut(@, [nf \in SproutNullifiers(hash) |-> hash]),
        !.mapSaplingNullifiers = MapPut(@, [nf \in SaplingNullifiers(hash) |-> hash]),
        !.nTransactionsUpdated = @ + 1,
        !.totalTxSize = @ + Tx(hash).nTxSize,
        !.cachedInnerUsage = @ + Tx(hash).nUsageSize]

\* what the acceptance pipeline has established before it calls addUnchecked:
\* the hash is not pooled and the pool's indexes show no conflicting spend
AcceptToMemoryPoolChecks(p, hash) ==
  /\ hash \notin p.mapTx
  /\ \A o \in Prevouts(hash) : o \notin DOMAIN p.mapNextTx
  /\ \A nf \in SproutNullifiers(hash) : nf \notin DOMAIN p.mapSproutNullifiers
  /\ \A nf \in SaplingNullifiers(hash) : nf \notin DOMAIN p.mapSaplingNullifiers

\* addUnchecked that refuses what the acceptance pipeline would refuse
AddUncheckedRet_Validating(p, hash) ==
  IF AcceptToMemoryPoolChecks(p, hash)
    THEN [ret |-> TRUE, pool |-> AddUncheckedPool(p, hash)]
    ELSE [ret |-> FALSE, pool |-> p]

\* CTxMemPool::addUnchecked(hash, entry): the value returned and the pool
AddUncheckedRet(p, hash) ==
  [ret |-> TRUE, pool |-> AddUncheckedPool(p, hash)]

\* addUnchecked called by a caller that has checked nothing
addUncheckedByAnyCaller(hash) ==
  LET r == AddUncheckedRet(Pool, hash)
  IN /\ nTransactionsUpdated < MaxRawUpdated
     /\ Becomes(r.pool)
     /\ removed' = << >>
     /\ lastOp' = [op |-> "addUnchecked", hash |-> hash, result |-> r.ret,
                   fChecksPass |-> AcceptToMemoryPoolChecks(Pool, hash)]
     /\ Forgets
     /\ Idle

addUnchecked(hash) ==
  /\ AcceptToMemoryPoolChecks(Pool, hash)
  /\ nTransactionsUpdated < MaxUpdated
  /\ Becomes(AddUncheckedPool(Pool, hash))
  /\ removed' = << >>
  /\ lastOp' = Op("addUnchecked", FALSE, FALSE)
  /\ Forgets
  /\ Idle

(***************************************************************************)
(* The optional address index and spent index.  A key of mapAddress is     *)
(* written <<txhash, j, spending>> (the script type and address bytes are  *)
(* those of the output the key stands for) and a key of mapSpent is the    *)
(* outpoint spent; mapSpent keeps the hash of the spending transaction.    *)
(* std::map::insert leaves an entry that is already there as it is.        *)
(***************************************************************************)
\* prevout.scriptPubKey.GetType() == CScript::UNKNOWN for an output: the
\* second outputs carry a script of no known type
IsUnknownScript(outpoint) == outpoint[2] = 1

\* the keys addAddressIndex builds for a transaction: one per input and one
\* per output whose script type is known
AddressKeys(hash) ==
  {<<hash, j - 1, 1>> : j \in {i \in DOMAIN Tx(hash).vin : ~IsUnknownScript(Tx(hash).vin[i])}}
  \cup {<<hash, j, 0>> : j \in {i \in 0 .. Tx(hash).nvout - 1 : ~IsUnknownScript(<<hash, i>>)}}

\* std::map::insert(make_pair(key, v[key])) for every key of the function v
MapInsert(m, v) ==
  [k \in DOMAIN m \cup DOMAIN v |-> IF k \in DOMAIN m THEN m[k] ELSE v[k]]

\* CTxMemPool::addAddressIndex(entry, view)
AddAddressIndexPool(p, hash) ==
  [p EXCEPT !.mapAddress = @ \cup AddressKeys(hash),
            !.mapAddressInserted = MapInsert(@, (hash :> AddressKeys(hash)))]

\* CTxMemPool::removeAddressIndex(txhash)
RemoveAddressIndexPool(p, txhash) ==
  IF txhash \in DOMAIN p.mapAddressInserted
    THEN [p EXCEPT !.mapAddress = @ \ p.mapAddressInserted[txhash],
                   !.mapAddressInserted = MapErase(@, {txhash})]
    ELSE p

\* CTxMemPool::addSpentIndex(entry, view)
AddSpentIndexPool(p, hash) ==
  [p EXCEPT !.mapSpent = MapInsert(@, [o \in Prevouts(hash) |-> hash]),
            !.mapSpentInserted = MapInsert(@, (hash :> Prevouts(hash)))]

\* CTxMemPool::removeSpentIndex(txhash)
RemoveSpentIndexPool(p, txhash) ==
  IF txhash \in DOMAIN p.mapSpentInserted
    THEN [p EXCEPT !.mapSpent = MapErase(@, p.mapSpentInserted[txhash]),
                   !.mapSpentInserted = MapErase(@, {txhash})]
    ELSE p

\* what the acceptance pipeline has done before it calls addAddressIndex or
\* addSpentIndex: added the transaction, whose inputs the view holds, to
\* the pool, with the index enabled
AcceptedWithIndex(p, hash, fIndex, inserted) ==
  /\ fIndex
  /\ hash \in p.mapTx
  /\ ~IsCoinImport(hash)
  /\ hash \notin DOMAIN inserted

addAddressIndex(hash) ==
  /\ AcceptedWithIndex(Pool, hash, config.fAddressIndex, mapAddressInserted)
  /\ Becomes(AddAddressIndexPool(Pool, hash))
  /\ removed' = << >>
  /\ lastOp' = [op |-> "addAddressIndex", hash |-> hash]
  /\ Forgets
  /\ Idle

addSpentIndex(hash) ==
  /\ AcceptedWithIndex(Pool, hash, config.fSpentIndex, mapSpentInserted)
  /\ Becomes(AddSpentIndexPool(Pool, hash))
  /\ removed' = << >>
  /\ lastOp' = [op |-> "addSpentIndex", hash |-> hash]
  /\ Forgets
  /\ Idle

(***************************************************************************)
(* remove                                                                  *)
(***************************************************************************)
\* the calls "if (fAddressIndex) removeAddressIndex(hash)" and
\* "if (fSpentIndex) removeSpentIndex(hash)" of remove()
RemoveIndexes(p, hash) ==
  LET q == IF config.fAddressIndex THEN RemoveAddressIndexPool(p, hash) ELSE p
  IN IF config.fSpentIndex THEN RemoveSpentIndexPool(q, hash) ELSE q

\* ClearPrioritisation erasing the mapDeltas entry only
ClearPrioritisationPool_DeltasOnly(p, hash) ==
  [p EXCEPT !.mapDeltas = MapErase(@, {hash})]

\* CTxMemPool::ClearPrioritisation(hash)
ClearPrioritisationPool(p, hash) ==
  [p EXCEPT !.mapDeltas = MapErase(@, {hash}),
            !.mapReserveTransactions = @ \ {hash}]

\* remove() looking for a spender of output 0 only
SpendersFrom_FirstOutputOnly(p, hash, i) ==
  IF i = 0 /\ Tx(hash).nvout > 0 /\ <<hash, 0>> \in DOMAIN p.mapNextTx
    THEN << p.mapNextTx[<<hash, 0>>].ptx >> ELSE << >>

\* the hashes remove() pushes for the outputs 0 .. nvout-1 of a transaction:
\* the spender the Spend Index records for each output that has one
RECURSIVE SpendersFrom(_, _, _)
SpendersFrom(p, hash, i) ==
  IF i >= Tx(hash).nvout THEN << >>
  ELSE (IF <<hash, i>> \in DOMAIN p.mapNextTx
          THEN << p.mapNextTx[<<hash, i>>].ptx >> ELSE << >>)
       \o SpendersFrom(p, hash, i + 1)

\* a value that is the hash of no transaction
GarbageHash == 0 - 1

\* tx.GetHash() read through the reference tx after mapTx.erase(hash) has
\* destroyed the entry it refers to: the hash when the freed storage still
\* holds it, some other value when it does not
GetHashAfterErase(p, hash) ==
  IF hash \in p.overwritten THEN GarbageHash ELSE hash

\* the outcomes of the reads of freed entries in one call: any of the pooled
\* transactions that have an entry to clear may be read back overwritten
OverwrittenChoices(p) ==
  SUBSET (p.mapTx \cap (DOMAIN p.mapDeltas \cup p.mapReserveTransactions))

\* the pool at the start of a call in which the entries of o are read back
\* overwritten
Freed(p, o) == [p EXCEPT !.overwritten = o]

\* remove()'s loop body without "cachedInnerUsage -= ..."
RemoveEntry_KeepsUsage(p, hash) ==
  ClearPrioritisationPool(
    RemoveIndexes(
     [p EXCEPT
       !.mapRecentlyAddedTx = @ \ {hash},
       !.mapNextTx = MapErase(@, Prevouts(hash)),
       !.mapSproutNullifiers = MapErase(@, SproutNullifiers(hash)),
       !.mapSaplingNullifiers = MapErase(@, SaplingNullifiers(hash)),
       !.totalTxSize = @ - Tx(hash).nTxSize,
       !.mapTx = @ \ {hash},
       !.nTransactionsUpdated = @ + 1],
     hash),
    GetHashAfterErase(p, hash))

\* remove()'s loop body erasing, with the entries of the transaction's inputs,
\* the Spend Index entries of its outputs
RemoveEntry_ErasesOutputs(p, hash) ==
  ClearPrioritisationPool(
    RemoveIndexes(
     [p EXCEPT
       !.mapRecentlyAddedTx = @ \ {hash},
       !.mapNextTx = MapErase(@, Prevouts(hash)
                                   \cup {<<hash, i>> : i \in 0..(Tx(hash).nvout - 1)}),
       !.mapSproutNullifiers = MapErase(@, SproutNullifiers(hash)),
       !.mapSaplingNullifiers = MapErase(@, SaplingNullifiers(hash)),
       !.totalTxSize = @ - Tx(hash).nTxSize,
       !.cachedInnerUsage = @ - Tx(hash).nUsageSize,
       !.mapTx = @ \ {hash},
       !.nTransactionsUpdated = @ + 1],
     hash),
    GetHashAfterErase(p, hash))

\* the body of remove()'s loop for a pooled hash: erase it everywhere
RemoveEntry(p, hash) ==
  ClearPrioritisationPool(
    RemoveIndexes(
     [p EXCEPT
       !.mapRecentlyAddedTx = @ \ {hash},
       !.mapNextTx = MapErase(@, Prevouts(hash)),
       !.mapSproutNullifiers = MapErase(@, SproutNullifiers(hash)),
       !.mapSaplingNullifiers = MapErase(@, SaplingNullifiers(hash)),
       !.totalTxSize = @ - Tx(hash).nTxSize,
       !.cachedInnerUsage = @ - Tx(hash).nUsageSize,
       !.mapTx = @ \ {hash},
       !.nTransactionsUpdated = @ + 1],
     hash),
    GetHashAfterErase(p, hash))

\* remove()'s while loop with removed.push_front(tx)
RECURSIVE RemoveWalk_PushFront(_, _, _, _)
RemoveWalk_PushFront(p, txToRemove, removedList, fRecursive) ==
  IF txToRemove = << >> THEN [pool |-> p, removed |-> removedList]
  ELSE LET hash == Head(txToRemove)
           rest == Tail(txToRemove)
       IN IF hash \notin p.mapTx
            THEN RemoveWalk_PushFront(p, rest, removedList, fRecursive)
            ELSE RemoveWalk_PushFront(RemoveEntry(p, hash),
                                      IF fRecursive
                                        THEN rest \o SpendersFrom(p, hash, 0)
                                        ELSE rest,
                                      << hash >> \o removedList,
                                      fRecursive)

\* remove()'s while loop without the "if (!mapTx.count(hash)) continue" test
RECURSIVE RemoveWalk_NoPooledTest(_, _, _, _)
RemoveWalk_NoPooledTest(p, txToRemove, removedList, fRecursive) ==
  IF txToRemove = << >> THEN [pool |-> p, removed |-> removedList]
  ELSE LET hash == Head(txToRemove)
           rest == Tail(txToRemove)
       IN RemoveWalk_NoPooledTest(RemoveEntry(p, hash),
                                  IF fRecursive
                                    THEN rest \o SpendersFrom(p, hash, 0)
                                    ELSE rest,
                                  Append(removedList, hash),
                                  fRecursive)

\* remove()'s while loop over the deque txToRemove
RECURSIVE RemoveWalk(_, _, _, _)
RemoveWalk(p, txToRemove, removedList, fRecursive) ==
  IF txToRemove = << >> THEN [pool |-> p, removed |-> removedList]
  ELSE LET hash == Head(txToRemove)
           rest == Tail(txToRemove)
       IN IF hash \notin p.mapTx
            THEN RemoveWalk(p, rest, removedList, fRecursive)
            ELSE RemoveWalk(RemoveEntry(p, hash),
                            IF fRecursive
                              THEN rest \o SpendersFrom(p, hash, 0)
                              ELSE rest,
                            Append(removedList, hash),
                            fRecursive)

\* remove() that walks to the spenders whatever fRecursive says
Remove_AlwaysRecursive(p, origTx, removedList, fRecursive) ==
  RemoveWalk(p,
             << origTx >> \o
               (IF origTx \notin p.mapTx
                  THEN SpendersFrom(p, origTx, 0) ELSE << >>),
             removedList, TRUE)

\* remove() without the branch for an origTx that is not pooled
Remove_PooledRootOnly(p, origTx, removedList, fRecursive) ==
  RemoveWalk(p, << origTx >>, removedList, fRecursive)

\* remove() that enqueues the spenders of origTx ahead of origTx itself
Remove_SpendersFirst(p, origTx, removedList, fRecursive) ==
  RemoveWalk(p,
             (IF fRecursive THEN SpendersFrom(p, origTx, 0) ELSE << >>)
               \o << origTx >>,
             removedList, fRecursive)

\* CTxMemPool::remove(origTx, removed, fRecursive)
Remove(p, origTx, removedList, fRecursive) ==
  RemoveWalk(p,
             << origTx >> \o
               (IF fRecursive /\ origTx \notin p.mapTx
                  THEN SpendersFrom(p, origTx, 0) ELSE << >>),
             removedList, fRecursive)

\* the lists a caller may hand to an operation that appends to one
RemovedInits == {<< >>, << 9 >>}

remove(origTx, fRecursive, removedIn) ==
  \E o \in OverwrittenChoices(Pool) :
  LET r == Remove(Freed(Pool, o), origTx, removedIn, fRecursive)
  IN /\ r.pool.nTransactionsUpdated <= MaxUpdated
     /\ Becomes(r.pool)
     /\ removed' = r.removed
     /\ lastOp' = Op("remove", fRecursive, origTx \in mapTx)
     /\ Forgets
     /\ Idle

(***************************************************************************)
(* clear                                                                   *)
(***************************************************************************)
\* clear() counting one update per transaction it drops
ClearPool_CountsEntries(p) ==
  [p EXCEPT !.mapTx = {},
            !.mapNextTx = << >>,
            !.totalTxSize = 0,
            !.cachedInnerUsage = 0,
            !.nTransactionsUpdated = @ + Cardinality(p.mapTx)]

\* CTxMemPool::clear()
ClearPool(p) ==
  [p EXCEPT !.mapTx = {},
            !.mapNextTx = << >>,
            !.totalTxSize = 0,
            !.cachedInnerUsage = 0,
            !.nTransactionsUpdated = @ + 1]

clear ==
  /\ nTransactionsUpdated < MaxUpdated
  /\ Becomes(ClearPool(Pool))
  /\ removed' = << >>
  /\ lastOp' = Op("clear", FALSE, FALSE)
  /\ Forgets
  /\ Idle

(***************************************************************************)
(* removeConflicts                                                         *)
(***************************************************************************)
\* the nullifiers of all joinsplits of a transaction, in the order of the
\* two nested loops over vJoinSplit and joinsplit.nullifiers
RECURSIVE JoinSplitNullifiersFrom(_, _)
JoinSplitNullifiersFrom(hash, j) ==
  IF j > Len(Tx(hash).vJoinSplit) THEN << >>
  ELSE Tx(hash).vJoinSplit[j].nullifiers \o JoinSplitNullifiersFrom(hash, j + 1)

\* the index lookups of removeConflicts(tx), in the order it makes them:
\* mapNextTx for each input, then each Sprout and each Sapling nullifier
ConflictKeysTable ==
  [h \in TxIds |->
     [i \in DOMAIN TxTable[h].vin |-> [index |-> "mapNextTx", key |-> TxTable[h].vin[i]]]
     \o [i \in DOMAIN JoinSplitNullifiersFrom(h, 1) |->
           [index |-> "mapSproutNullifiers", key |-> JoinSplitNullifiersFrom(h, 1)[i]]]
     \o [i \in DOMAIN TxTable[h].vShieldedSpend |->
           [index |-> "mapSaplingNullifiers", key |-> TxTable[h].vShieldedSpend[i].nullifier]]]

\* removeConflicts looking up the transparent inputs only
ConflictKeys_InputsOnly(hash) ==
  [i \in DOMAIN Tx(hash).vin |-> [index |-> "mapNextTx", key |-> Tx(hash).vin[i]]]

\* the lookups removeConflicts makes for a transaction
ConflictKeys(hash) == ConflictKeysTable[hash]

\* whether an index has an entry for a lookup
HasEntry(p, k) ==
  CASE k.index = "mapNextTx" -> k.key \in DOMAIN p.mapNextTx
    [] k.index = "mapSproutNullifiers" -> k.key \in DOMAIN p.mapSproutNullifiers
    [] k.index = "mapSaplingNullifiers" -> k.key \in DOMAIN p.mapSaplingNullifiers

\* the transaction pointer an index entry holds (it->second.ptx, it->second)
EntryPtr(p, k) ==
  CASE k.index = "mapNextTx" -> p.mapNextTx[k.key].ptx
    [] k.index = "mapSproutNullifiers" -> p.mapSproutNullifiers[k.key]
    [] k.index = "mapSaplingNullifiers" -> p.mapSaplingNullifiers[k.key]

\* the lookups of a set of transactions whose entry points to a transaction
\* the pool no longer holds: reading through such a pointer is undefined
DanglingKeys(p, hashes) ==
  {k \in UNION {Range(ConflictKeys(h)) : h \in hashes} :
     HasEntry(p, k) /\ EntryPtr(p, k) \notin p.mapTx}

\* the transaction read through the pointer of an entry: the pooled
\* transaction itself, or for a dangling pointer whatever memory holds (ub)
Deref(p, k, ub) ==
  IF EntryPtr(p, k) \in p.mapTx THEN EntryPtr(p, k) ELSE ub

\* the outcomes of reading through dangling pointers in a call that looks up
\* the spends of the given transactions: any transaction may be read
UbChoices(p, hashes) ==
  IF DanglingKeys(p, hashes) = {} THEN {CHOOSE h \in TxIds : TRUE} ELSE TxIds

\* the loops of removeConflicts over the lookups still to make
RECURSIVE RemoveConflictsWalk(_, _, _, _, _)
RemoveConflictsWalk(p, tx, keys, removedList, ub) ==
  IF keys = << >> THEN [pool |-> p, removed |-> removedList]
  ELSE LET k == Head(keys)
       IN IF HasEntry(p, k) /\ Deref(p, k, ub) # tx
            THEN LET r == Remove(p, Deref(p, k, ub), removedList, TRUE)
                 IN RemoveConflictsWalk(r.pool, tx, Tail(keys), r.removed, ub)
            ELSE RemoveConflictsWalk(p, tx, Tail(keys), removedList, ub)

\* CTxMemPool::removeConflicts(tx, removed)
RemoveConflicts(p, tx, removedList, ub) ==
  RemoveConflictsWalk(p, tx, ConflictKeys(tx), removedList, ub)

removeConflicts(tx, removedIn) ==
  \E ub \in UbChoices(Pool, {tx}), o \in OverwrittenChoices(Pool) :
    LET r == RemoveConflicts(Freed(Pool, o), tx, removedIn, ub)
    IN /\ r.pool.nTransactionsUpdated <= MaxUpdated
       /\ Becomes(r.pool)
       /\ removed' = r.removed
       /\ lastOp' = Op("removeConflicts", FALSE, FALSE)
       /\ Forgets
       /\ Idle

(***************************************************************************)
(* removeForBlock                                                          *)
(***************************************************************************)
\* two transactions spend the same outpoint or the same nullifier
Conflicting(a, b) ==
  \/ Prevouts(a) \cap Prevouts(b) # {}
  \/ SproutNullifiers(a) \cap SproutNullifiers(b) # {}
  \/ SaplingNullifiers(a) \cap SaplingNullifiers(b) # {}

\* b spends an output of a
SpendsOutputOf(b, a) ==
  \E o \in Prevouts(b) : o[1] = a /\ o[2] < Tx(a).nvout

\* the transaction lists of connected blocks: one transaction, or a
\* transaction followed by one that spends an output of it
Blocks ==
  {<< a >> : a \in TxIds} \cup
  {<< pr[1], pr[2] >> :
     pr \in {q \in TxIds \X TxIds :
               SpendsOutputOf(q[2], q[1]) /\ ~Conflicting(q[1], q[2])}}

\* removeForBlock's second loop without its ClearPrioritisation call
RECURSIVE RemoveForBlockWalk_NoClear(_, _, _, _)
RemoveForBlockWalk_NoClear(p, vtx, conflicts, ub) ==
  IF vtx = << >> THEN [pool |-> p, removed |-> conflicts]
  ELSE LET tx == Head(vtx)
           r1 == Remove(p, tx, << >>, FALSE)
           r2 == RemoveConflicts(r1.pool, tx, conflicts, ub)
       IN RemoveForBlockWalk_NoClear(r2.pool, Tail(vtx), r2.removed, ub)

\* the second loop of removeForBlock over the transactions still to handle
RECURSIVE RemoveForBlockWalk(_, _, _, _)
RemoveForBlockWalk(p, vtx, conflicts, ub) ==
  IF vtx = << >> THEN [pool |-> p, removed |-> conflicts]
  ELSE LET tx == Head(vtx)
           r1 == Remove(p, tx, << >>, FALSE)
           r2 == RemoveConflicts(r1.pool, tx, conflicts, ub)
       IN RemoveForBlockWalk(ClearPrioritisationPool(r2.pool, tx), Tail(vtx),
                             r2.removed, ub)

\* CTxMemPool::removeForBlock(vtx, nBlockHeight, conflicts, fCurrentEstimate)
RemoveForBlock(p, vtx, conflicts, ub) == RemoveForBlockWalk(p, vtx, conflicts, ub)

removeForBlock(vtx, conflictsIn) ==
  \E ub \in UbChoices(Pool, Range(vtx)), o \in OverwrittenChoices(Pool) :
    LET r == RemoveForBlock(Freed(Pool, o), vtx, conflictsIn, ub)
    IN /\ r.pool.nTransactionsUpdated <= MaxUpdated
       /\ Becomes(r.pool)
       /\ removed' = r.removed
       /\ lastOp' = Op("removeForBlock", FALSE, FALSE)
       /\ Forgets
       /\ Idle

(***************************************************************************)
(* The scanning removals: each collects transactionsToRemove in one pass    *)
(* over mapTx (in the order of the hashes) and then removes every          *)
(* collected transaction recursively, into a list of its own.              *)
(***************************************************************************)
\* the elements of a set of hashes in increasing order
RECURSIVE InOrder(_)
InOrder(S) ==
  IF S = {} THEN << >>
  ELSE LET m == CHOOSE x \in S : \A y \in S : x <= y
       IN << m >> \o InOrder(S \ {m})

\* the loop "for tx in transactionsToRemove: remove(tx, removed, true)"
RECURSIVE RemoveEach(_, _)
RemoveEach(p, transactionsToRemove) ==
  IF transactionsToRemove = << >> THEN p
  ELSE RemoveEach(Remove(p, Head(transactionsToRemove), << >>, TRUE).pool,
                  Tail(transactionsToRemove))

\* #define _COINBASE_MATURITY 100
COINBASE_MATURITY == 100

\* the result of AccessCoins for a hash the view does not hold
NullCoins == [null |-> TRUE]

\* the UTXO snapshots given to removeForReorg, by the hash of the source
\* transaction: the coins of chain transaction 0 as a coinbase of height 1,
\* no coins at all, and the coins of 0 as a time-locked ordinary output
CoinsViews ==
  { (0 :> [null |-> FALSE, fCoinBase |-> TRUE, nHeight |-> 1,
            nUnlockTime |-> 0, fAvailable0 |-> TRUE, fValue0GTE |-> FALSE]),
    << >>,
    (0 :> [null |-> FALSE, fCoinBase |-> FALSE, nHeight |-> 1,
            nUnlockTime |-> 120, fAvailable0 |-> TRUE, fValue0GTE |-> TRUE]) }

\* CCoinsViewCache::AccessCoins(hash)
AccessCoins(pcoins, hash) ==
  IF hash \in DOMAIN pcoins THEN pcoins[hash] ELSE NullCoins

\* CheckFinalTx(tx, flags) against a tip whose next block has the given height
CheckFinalTx(hash, nBlockHeight) ==
  Tx(hash).nLockTime = 0 \/ Tx(hash).nLockTime < nBlockHeight

\* removeForReorg's test for one input without the "!coins" operand
ReorgInputFails_CoinsPresent(p, pcoins, nMemPoolHeight, prevout) ==
  LET coins == AccessCoins(pcoins, prevout[1])
  IN /\ prevout[1] \notin p.mapTx
     /\ ~coins.null
     /\ \/ coins.fCoinBase /\ nMemPoolHeight - coins.nHeight < COINBASE_MATURITY
        \/ /\ nMemPoolHeight < coins.nUnlockTime
           /\ coins.fAvailable0
           /\ coins.fValue0GTE

\* the test of removeForReorg's inner loop for one input of a transaction
\* flagged as spending a coinbase
ReorgInputFails(p, pcoins, nMemPoolHeight, prevout) ==
  LET coins == AccessCoins(pcoins, prevout[1])
  IN /\ prevout[1] \notin p.mapTx
     /\ \/ coins.null
        \/ coins.fCoinBase /\ nMemPoolHeight - coins.nHeight < COINBASE_MATURITY
        \/ /\ nMemPoolHeight < coins.nUnlockTime
           /\ coins.fAvailable0
           /\ coins.fValue0GTE

\* removeForReorg's scan without the CheckFinalTx branch
ReorgRemoves_NoFinality(p, pcoins, nMemPoolHeight, hash) ==
  /\ Tx(hash).spendsCoinbase
  /\ \E i \in DOMAIN Tx(hash).vin :
       ReorgInputFails(p, pcoins, nMemPoolHeight, Tx(hash).vin[i])

\* the test of removeForReorg's scan
ReorgRemoves(p, pcoins, nMemPoolHeight, hash) ==
  \/ ~CheckFinalTx(hash, nMemPoolHeight)
  \/ /\ Tx(hash).spendsCoinbase
     /\ \E i \in DOMAIN Tx(hash).vin :
          ReorgInputFails(p, pcoins, nMemPoolHeight, Tx(hash).vin[i])

\* CTxMemPool::removeForReorg(pcoins, nMemPoolHeight, flags)
RemoveForReorg(p, pcoins, nMemPoolHeight) ==
  RemoveEach(p, InOrder({h \in p.mapTx : ReorgRemoves(p, pcoins, nMemPoolHeight, h)}))

\* the heights given to removeForReorg
ReorgHeights == {1, 50, 150}

removeForReorg(pcoins, nMemPoolHeight) ==
  \E o \in OverwrittenChoices(Pool) :
  LET q == RemoveForReorg(Freed(Pool, o), pcoins, nMemPoolHeight)
  IN /\ q.nTransactionsUpdated <= MaxUpdated
     /\ Becomes(q)
     /\ removed' = << >>
     /\ lastOp' = Op("removeForReorg", FALSE, FALSE)
     /\ Forgets
     /\ Idle

\* removeWithAnchor's test without the comparison with invalidRoot
HasAnchor_AnyRoot(hash, invalidRoot, type) ==
  CASE type = "SPROUT" -> Tx(hash).vJoinSplit # << >>
    [] type = "SAPLING" -> Tx(hash).vShieldedSpend # << >>

\* removeWithAnchor's test looking at the spends of both types
HasAnchor_AnyType(hash, invalidRoot, type) ==
  \/ \E j \in DOMAIN Tx(hash).vJoinSplit :
       Tx(hash).vJoinSplit[j].anchor = invalidRoot
  \/ \E j \in DOMAIN Tx(hash).vShieldedSpend :
       Tx(hash).vShieldedSpend[j].anchor = invalidRoot

\* the test of removeWithAnchor's scan for a shielded type
HasAnchor(hash, invalidRoot, type) ==
  CASE type = "SPROUT" ->
         \E j \in DOMAIN Tx(hash).vJoinSplit :
           Tx(hash).vJoinSplit[j].anchor = invalidRoot
    [] type = "SAPLING" ->
         \E j \in DOMAIN Tx(hash).vShieldedSpend :
           Tx(hash).vShieldedSpend[j].anchor = invalidRoot

\* CTxMemPool::removeWithAnchor(invalidRoot, type)
RemoveWithAnchor(p, invalidRoot, type) ==
  RemoveEach(p, InOrder({h \in p.mapTx : HasAnchor(h, invalidRoot, type)}))

\* the note commitment tree roots given to removeWithAnchor
Anchors == {1, 2, 3}

\* enum ShieldedType
ShieldedTypes == {"SPROUT", "SAPLING"}

removeWithAnchor(invalidRoot, type) ==
  \E o \in OverwrittenChoices(Pool) :
  LET q == RemoveWithAnchor(Freed(Pool, o), invalidRoot, type)
  IN /\ q.nTransactionsUpdated <= MaxUpdated
     /\ Becomes(q)
     /\ removed' = << >>
     /\ lastOp' = Op("removeWithAnchor", FALSE, FALSE)
     /\ Forgets
     /\ Idle

\* IsExpiredTx(tx, nBlockHeight)
IsExpiredTx(hash, nBlockHeight) ==
  Tx(hash).nExpiryHeight # 0 /\ nBlockHeight > Tx(hash).nExpiryHeight

\* a C++ bool as an int
BoolToInt(b) == IF b THEN 1 ELSE 0

\* removeExpired's test without IsExpiredTx
ExpiredRemoves_InterestOnly(hash, nBlockHeight, interest) ==
  BoolToInt(hash \in interest) < 0

\* the test of removeExpired's scan; interest is the set of transactions for
\* which komodo_validate_interest returns a negative value, and the second
\* operand compares the value of the whole && expression with 0
ExpiredRemoves(hash, nBlockHeight, interest) ==
  \/ IsExpiredTx(hash, nBlockHeight)
  \/ BoolToInt(hash \in interest) < 0

\* CTxMemPool::removeExpired(nBlockHeight)
RemoveExpired(p, nBlockHeight, interest) ==
  RemoveEach(p, InOrder({h \in p.mapTx : ExpiredRemoves(h, nBlockHeight, interest)}))

\* the heights given to removeExpired
ExpiryHeights == {2, 3, 4}

removeExpired(nBlockHeight, interest) ==
  \E o \in OverwrittenChoices(Pool) :
  LET q == RemoveExpired(Freed(Pool, o), nBlockHeight, interest)
  IN /\ q.nTransactionsUpdated <= MaxUpdated
     /\ Becomes(q)
     /\ removed' = << >>
     /\ lastOp' = Op("removeExpired", FALSE, FALSE)
     /\ Forgets
     /\ Idle

\* removeWithoutBranchId collecting the older branch ids only
RemoveWithoutBranchId_OlderOnly(p, nMemPoolBranchId) ==
  RemoveEach(p, InOrder({h \in p.mapTx : Tx(h).nBranchId < nMemPoolBranchId}))

\* CTxMemPool::removeWithoutBranchId(nMemPoolBranchId)
RemoveWithoutBranchId(p, nMemPoolBranchId) ==
  RemoveEach(p, InOrder({h \in p.mapTx : Tx(h).nBranchId # nMemPoolBranchId}))

\* the consensus branch ids given to removeWithoutBranchId
BranchIds == {1, 2}

removeWithoutBranchId(nMemPoolBranchId) ==
  \E o \in OverwrittenChoices(Pool) :
  LET q == RemoveWithoutBranchId(Freed(Pool, o), nMemPoolBranchId)
  IN /\ q.nTransactionsUpdated <= MaxUpdated
     /\ Becomes(q)
     /\ removed' = << >>
     /\ lastOp' = Op("removeWithoutBranchId", FALSE, FALSE)
     /\ Forgets
     /\ Idle

(***************************************************************************)
(* AddTransactionsUpdated                                                  *)
(***************************************************************************)
\* CTxMemPool::AddTransactionsUpdated(n)
AddTransactionsUpdatedPool(p, n) ==
  [p EXCEPT !.nTransactionsUpdated = @ + n]

AddTransactionsUpdated(n) ==
  /\ nTransactionsUpdated + n <= MaxUpdated
  /\ Becomes(AddTransactionsUpdatedPool(Pool, n))
  /\ removed' = << >>
  /\ lastOp' = Op("AddTransactionsUpdated", FALSE, FALSE)
  /\ Forgets
  /\ Idle

(***************************************************************************)
(* nullifierExists                                                         *)
(***************************************************************************)
\* CTxMemPool::nullifierExists(nullifier, type)
NullifierExists(p, nullifier, type) ==
  CASE type = "SPROUT" -> nullifier \in DOMAIN p.mapSproutNullifiers
    [] type = "SAPLING" -> nullifier \in DOMAIN p.mapSaplingNullifiers

(***************************************************************************)
(* CCoinsViewMemPool: the coins view that lays the pool over a backing     *)
(* view.  A CCoins is written [tx, nHeight, vout] with vout the indexes of *)
(* the outputs still available; it is pruned when none is.                 *)
(***************************************************************************)
\* static const unsigned int MEMPOOL_HEIGHT = 0x7FFFFFFF
MEMPOOL_HEIGHT == 2147483647

\* CCoins(tx, nHeightIn): all outputs of the transaction, at the height
CoinsFromTx(hash, nHeightIn) ==
  [tx |-> hash, nHeight |-> nHeightIn, vout |-> 0 .. Tx(hash).nvout - 1]

\* a default-constructed CCoins, as the caller of GetCoins passes it
EmptyCoins == [tx |-> 0, nHeight |-> 0, vout |-> {}]

\* CCoins::IsPruned
IsPruned(coins) == coins.vout = {}

\* CTxMemPool::exists(hash)
Exists(p, hash) == hash \in p.mapTx

\* CTxMemPool::lookup(hash, result): the return value and result
Lookup(p, hash, result) ==
  IF hash \notin p.mapTx THEN [ret |-> FALSE, result |-> result]
  ELSE [ret |-> TRUE, result |-> hash]

\* base->GetCoins(txid, coins): the return value and coins
BaseGetCoins(view, txid, coins) ==
  IF txid \in DOMAIN view.coins
    THEN [ret |-> TRUE, coins |-> view.coins[txid]]
    ELSE [ret |-> FALSE, coins |-> coins]

\* base->HaveCoins(txid)
BaseHaveCoins(view, txid) == txid \in DOMAIN view.coins

\* base->GetNullifier(nf, type)
BaseGetNullifier(view, nf, type) == nf \in view.nullifiers[type]

\* GetCoins asking the backing view first and the pool only on a miss
GetCoinsOut_BaseFirst(p, view, txid, coins) ==
  LET b == BaseGetCoins(view, txid, coins)
  IN IF b.ret /\ ~IsPruned(b.coins)
       THEN [ret |-> TRUE, coins |-> b.coins, baseCalls |-> 1]
       ELSE IF Lookup(p, txid, 0).ret
              THEN [ret |-> TRUE, coins |-> CoinsFromTx(txid, MEMPOOL_HEIGHT),
                    baseCalls |-> 1]
              ELSE [ret |-> FALSE, coins |-> b.coins, baseCalls |-> 1]

\* CCoinsViewMemPool::GetCoins(txid, coins): the return value, coins, and
\* the number of calls made to the backing view
GetCoinsOut(p, view, txid, coins) ==
  IF Lookup(p, txid, 0).ret
    THEN [ret |-> TRUE, coins |-> CoinsFromTx(Lookup(p, txid, 0).result, MEMPOOL_HEIGHT),
          baseCalls |-> 0]
    ELSE LET b == BaseGetCoins(view, txid, coins)
         IN [ret |-> b.ret /\ ~IsPruned(b.coins), coins |-> b.coins,
             baseCalls |-> 1]

\* GetNullifier looking at the pool only
GetNullifierOut_PoolOnly(p, view, nf, type) == NullifierExists(p, nf, type)

\* CCoinsViewMemPool::GetNullifier(nf, type)
GetNullifierOut(p, view, nf, type) ==
  NullifierExists(p, nf, type) \/ BaseGetNullifier(view, nf, type)

\* CCoinsViewMemPool::HaveCoins(txid)
HaveCoinsOut(p, view, txid) == Exists(p, txid) \/ BaseHaveCoins(view, txid)

\* the transaction hashes and the nullifiers the overlay is asked about
ViewTxids == {0, 1, 2, 3}
ViewNullifiers == {1, 2, 3}

GetCoins(txid) ==
  /\ Becomes(Pool)
  /\ removed' = << >>
  /\ lastOp' = [op |-> "GetCoins", txid |-> txid,
                out |-> GetCoinsOut(Pool, base, txid, EmptyCoins)]
  /\ Forgets
  /\ Idle

GetNullifier(nf, type) ==
  /\ Becomes(Pool)
  /\ removed' = << >>
  /\ lastOp' = [op |-> "GetNullifier", nf |-> nf, type |-> type,
                out |-> GetNullifierOut(Pool, base, nf, type)]
  /\ Forgets
  /\ Idle

HaveCoins(txid) ==
  /\ Becomes(Pool)
  /\ removed' = << >>
  /\ lastOp' = [op |-> "HaveCoins", txid |-> txid,
                out |-> HaveCoinsOut(Pool, base, txid)]
  /\ Forgets
  /\ Idle

(***************************************************************************)
(* The lock cs.  One thread calls addUnchecked and remove, each call       *)
(* taking the lock, executing its statements one step at a time and        *)
(* releasing the lock; other threads call the operations that read.  The   *)
(* position of the writing thread is the source line of the statement it   *)
(* executes next.                                                          *)
(***************************************************************************)
\* LOCK(cs) lets any caller in
CanLock_Always(c) == TRUE

\* LOCK(cs) returns when no other call holds the lock
CanLock(c) == c.cs = ""

\* the lines of the statements of addUnchecked and of remove()'s loop body
\* that write, in the order they execute, followed by the line where the
\* lock is released
AddLines == << 113, 115, 116, 117, 121, 126, 129, 130, 131, 134 >>
RemoveLines == << 282, 283, 285, 290, 293, 294, 295, 296, 297, 299, 303, 305 >>

LinesOf(op) == IF op = "addUnchecked" THEN AddLines ELSE RemoveLines

\* the line after pc in the call under way
NextLine(c) ==
  LET lines == LinesOf(c.op)
      i == CHOOSE k \in DOMAIN lines : lines[k] = c.pc
  IN lines[i + 1]

\* the line where the call under way releases the lock
LastLine(c) == LinesOf(c.op)[Len(LinesOf(c.op))]

\* some statements of the call under way have written and some have not
PartlyApplied(c) ==
  c.pc # 0 /\ c.pc # LinesOf(c.op)[1] /\ c.pc # LastLine(c)

\* the pool after the statement at line c.pc
Statement(p, c) ==
  LET hash == c.hash
      inpoint(o) == [ptx |-> hash, n |-> LastInputAt(hash, o) - 1]
  IN CASE c.pc = 113 -> [p EXCEPT !.mapTx = @ \cup {hash}]
       [] c.pc = 115 -> [p EXCEPT !.mapRecentlyAddedTx = @ \cup {hash}]
       [] c.pc = 116 -> [p EXCEPT !.nRecentlyAddedSequence = @ + 1]
       [] c.pc = 117 ->
            [p EXCEPT !.mapNextTx = MapPut(@, [o \in NextTxOf(hash) |-> inpoint(o)])]
       [] c.pc = 121 ->
            [p EXCEPT !.mapSproutNullifiers =
                        MapPut(@, [nf \in SproutNullifiers(hash) |-> hash])]
       [] c.pc = 126 ->
            [p EXCEPT !.mapSaplingNullifiers =
                        MapPut(@, [nf \in SaplingNullifiers(hash) |-> hash])]
       [] c.pc = 129 -> [p EXCEPT !.nTransactionsUpdated = @ + 1]
       [] c.pc = 130 -> [p EXCEPT !.totalTxSize = @ + Tx(hash).nTxSize]
       [] c.pc = 131 -> [p EXCEPT !.cachedInnerUsage = @ + Tx(hash).nUsageSize]
       [] c.pc = 282 -> [p EXCEPT !.mapRecentlyAddedTx = @ \ {hash}]
       [] c.pc = 283 -> [p EXCEPT !.mapNextTx = MapErase(@, Prevouts(hash))]
       [] c.pc = 285 ->
            [p EXCEPT !.mapSproutNullifiers = MapErase(@, SproutNullifiers(hash))]
       [] c.pc = 290 ->
            [p EXCEPT !.mapSaplingNullifiers = MapErase(@, SaplingNullifiers(hash))]
       [] c.pc = 293 -> p
       [] c.pc = 294 -> [p EXCEPT !.totalTxSize = @ - Tx(hash).nTxSize]
       [] c.pc = 295 -> [p EXCEPT !.cachedInnerUsage = @ - Tx(hash).nUsageSize]
       [] c.pc = 296 -> [p EXCEPT !.mapTx = @ \ {hash}]
       [] c.pc = 297 -> [p EXCEPT !.nTransactionsUpdated = @ + 1]
       [] c.pc = 299 -> RemoveIndexes(p, hash)
       [] c.pc = 303 ->
            ClearPrioritisationPool(p, GetHashAfterErase(Freed(p, c.o), hash))

\* the pool without the mark of the entries read back overwritten
Members(p) == [p EXCEPT !.overwritten = {}]

\* addUnchecked up to LOCK(cs)
lockAddUnchecked(hash) ==
  /\ conc.pc = 0
  /\ CanLock(conc)
  /\ AcceptToMemoryPoolChecks(Pool, hash)
  /\ nTransactionsUpdated < MaxConcUpdated
  /\ conc' = [conc EXCEPT !.cs = "addUnchecked", !.op = "addUnchecked",
                          !.pc = AddLines[1], !.hash = hash, !.o = {},
                          !.committed = AddUncheckedPool(Pool, hash)]
  /\ Becomes(Pool)
  /\ UNCHANGED removed
  /\ lastOp' = [op |-> "LOCK", by |-> "addUnchecked"]
  /\ Forgets
  /\ UNCHANGED <<config, base, notify, estimator, audit, peer>>

\* remove(origTx, removed, false) of a pooled transaction up to the first
\* statement of its loop body that writes
lockRemove(origTx) ==
  /\ conc.pc = 0
  /\ CanLock(conc)
  /\ origTx \in mapTx
  /\ nTransactionsUpdated < MaxConcUpdated
  /\ \E o \in OverwrittenChoices(Pool) :
       conc' = [conc EXCEPT !.cs = "remove", !.op = "remove",
                            !.pc = RemoveLines[1], !.hash = origTx, !.o = o,
                            !.committed =
                              Members(Remove(Freed(Pool, o), origTx, << >>, FALSE).pool)]
  /\ Becomes(Pool)
  /\ removed' = << >>
  /\ lastOp' = [op |-> "LOCK", by |-> "remove"]
  /\ Forgets
  /\ UNCHANGED <<config, base, notify, estimator, audit, peer>>

\* one statement of the call that holds the lock
statement ==
  /\ conc.pc # 0
  /\ conc.pc # LastLine(conc)
  /\ conc' = [conc EXCEPT !.pc = NextLine(conc)]
  /\ Becomes(Statement(Pool, conc))
  /\ removed' = IF conc.pc = 293 THEN Append(removed, conc.hash) ELSE removed
  /\ lastOp' = [op |-> "statement", line |-> conc.pc]
  /\ Forgets
  /\ UNCHANGED <<config, base, notify, estimator, audit, peer>>

\* the end of the block that holds the lock
unlock ==
  /\ conc.pc # 0
  /\ conc.pc = LastLine(conc)
  /\ conc' = [conc EXCEPT !.cs = "", !.op = "", !.pc = 0, !.hash = 0, !.o = {},
                          !.done = @ + 1]
  /\ Becomes(Pool)
  /\ UNCHANGED removed
  /\ lastOp' = [op |-> "UNLOCK", by |-> conc.op]
  /\ Forgets
  /\ UNCHANGED <<config, base, notify, estimator, audit, peer>>

\* CTxMemPool::GetTransactionsUpdated(): LOCK(cs), then the counter
GetTransactionsUpdated ==
  /\ CanLock(conc)
  /\ conc' = [conc EXCEPT !.seen = nTransactionsUpdated]
  /\ Becomes(Pool)
  /\ UNCHANGED removed
  /\ lastOp' = [op |-> "GetTransactionsUpdated", result |-> nTransactionsUpdated]
  /\ Forgets
  /\ UNCHANGED <<config, base, notify, estimator, audit, peer>>

\* CTxMemPool::lookup(hash, result): LOCK(cs), then mapTx
lookup(hash) ==
  /\ CanLock(conc)
  /\ Becomes(Pool)
  /\ UNCHANGED removed
  /\ lastOp' = [op |-> "lookup", hash |-> hash, result |-> Lookup(Pool, hash, 0).ret]
  /\ Forgets
  /\ Idle

\* the lines of the statements that write the index a read goes to
WritesOf(index) ==
  CASE index = "mapTx" -> {113, 296}
    [] index = "mapNextTx" -> {117, 283}
    [] index = "SPROUT" -> {121, 285}
    [] index = "SAPLING" -> {126, 290}

\* a read of an index made without the lock while the thread that holds it
\* is at a statement that writes the same index
Races(c, index) == c.pc \in WritesOf(index)

\* CTxMemPool::nullifierExists(nullifier, type), which takes no lock: what it
\* returns is not determined when it races with a write of the map it reads
nullifierExists(nullifier, type) ==
  /\ \E result \in IF Races(conc, type) THEN BOOLEAN
                   ELSE {NullifierExists(Pool, nullifier, type)} :
       lastOp' = [op |-> "nullifierExists", type |-> type, result |-> result]
  /\ Becomes(Pool)
  /\ UNCHANGED removed
  /\ Forgets
  /\ Idle

\* what mapTx.size() and mapNextTx.size() give when read without the lock:
\* the size before or after the statement they race with
SizesRead(p, c, index) ==
  LET size(q) == IF index = "mapTx" THEN Cardinality(q.mapTx)
                 ELSE Cardinality(DOMAIN q.mapNextTx)
  IN IF Races(c, index) THEN {size(p), size(Statement(p, c))} ELSE {size(p)}

\* CTxMemPool::check(pcoins) up to LOCK(cs), for a pool whose checks are
\* switched on: the LogPrint that reads the two sizes
check ==
  /\ ~conc.logged
  /\ conc' = [conc EXCEPT !.logged = TRUE]
  /\ \E nTx \in SizesRead(Pool, conc, "mapTx") :
       \E nInputs \in SizesRead(Pool, conc, "mapNextTx") :
         lastOp' = [op |-> "check", transactions |-> nTx, inputs |-> nInputs]
  /\ Becomes(Pool)
  /\ UNCHANGED removed
  /\ Forgets
  /\ UNCHANGED <<config, base, notify, estimator, audit, peer>>

\* CTxMemPool::check(pcoins) from LOCK(cs) on: the walk over mapTx that sums
\* the sizes, and the assertions on the two totals
checkLocked ==
  /\ conc.logged
  /\ CanLock(conc)
  /\ conc' = [conc EXCEPT !.logged = FALSE]
  /\ Becomes(Pool)
  /\ UNCHANGED removed
  /\ lastOp' = [op |-> "checkLocked",
                passes |-> /\ totalTxSize = SumTxSize(mapTx)
                           /\ cachedInnerUsage = SumUsageSize(mapTx)]
  /\ Forgets
  /\ UNCHANGED <<config, base, notify, estimator, audit, peer>>

(***************************************************************************)
(* NotifyRecentlyAdded.  Its first block runs under the lock and is one    *)
(* step; each SyncWithWallets call runs without the lock and is one step,  *)
(* the operations of other threads going in between; the last block is one *)
(* step.  IsFullyNotified is called by another thread.                     *)
(***************************************************************************)
\* the entries of mapRecentlyAddedTx whose pointer refers to an entry that
\* mapTx no longer holds
DanglingRecent(p) == p.mapRecentlyAddedTx \ p.mapTx

\* the copies txs.push_back(*(kv.second)) makes, in the order of the map;
\* the copy made through a dangling pointer is the transaction when the
\* storage still holds it and something else for the entries in garbled
RECURSIVE CopiesOf(_, _)
CopiesOf(hashes, garbled) ==
  IF hashes = << >> THEN << >>
  ELSE << IF Head(hashes) \in garbled THEN GarbageHash ELSE Head(hashes) >>
       \o CopiesOf(Tail(hashes), garbled)

\* the first block that leaves mapRecentlyAddedTx as it is
NotifyDrainPool_KeepsList(p) == p

\* the first block of NotifyRecentlyAdded: mapRecentlyAddedTx.clear()
NotifyDrainPool(p) == [p EXCEPT !.mapRecentlyAddedTx = {}]

NotifyRecentlyAdded ==
  /\ notify.pc = "idle"
  /\ \E garbled \in SUBSET DanglingRecent(Pool) :
       notify' = [pc |-> "deliver",
                  recentlyAddedSequence |-> nRecentlyAddedSequence,
                  txs |-> CopiesOf(InOrder(mapRecentlyAddedTx), garbled)]
  /\ Becomes(NotifyDrainPool(Pool))
  /\ removed' = << >>
  /\ lastOp' = [op |-> "NotifyRecentlyAdded", batch |-> Cardinality(mapRecentlyAddedTx)]
  /\ Forgets
  /\ UNCHANGED <<config, base, conc, estimator, audit, peer>>

\* what a SyncWithWallets call may do: return, throw a std::exception, throw
\* something else, or throw boost::thread_interrupted
SyncOutcomes == {"returns", "std::exception", "other", "thread_interrupted"}

\* the loop that gives up the batch on any exception
AfterSync_StopsOnAny(n, outcome) ==
  IF outcome # "returns" THEN NotifyIdle
  ELSE [n EXCEPT !.txs = Tail(@)]

\* the thread after the try block around one SyncWithWallets call:
\* boost::thread_interrupted is thrown on and ends the function, every
\* other exception is logged and the loop goes on
AfterSync(n, outcome) ==
  IF outcome = "thread_interrupted" THEN NotifyIdle
  ELSE [n EXCEPT !.txs = Tail(@)]

SyncWithWallets(outcome) ==
  /\ notify.pc = "deliver"
  /\ notify.txs # << >>
  /\ notify' = AfterSync(notify, outcome)
  /\ Becomes(Pool)
  /\ removed' = << >>
  /\ lastOp' = [op |-> "SyncWithWallets", tx |-> Head(notify.txs),
                outcome |-> outcome]
  /\ Forgets
  /\ UNCHANGED <<config, base, conc, estimator, audit, peer>>

\* the last block writing the larger of the two sequence numbers
NotifyAdvancePool_KeepsLargest(p, recentlyAddedSequence) ==
  IF config.regtest /\ recentlyAddedSequence > p.nNotifiedSequence
    THEN [p EXCEPT !.nNotifiedSequence = recentlyAddedSequence]
    ELSE p

\* the last block of NotifyRecentlyAdded
NotifyAdvancePool(p, recentlyAddedSequence) ==
  IF config.regtest THEN [p EXCEPT !.nNotifiedSequence = recentlyAddedSequence]
  ELSE p

NotifyAdvance ==
  /\ notify.pc = "deliver"
  /\ notify.txs = << >>
  /\ notify' = NotifyIdle
  /\ Becomes(NotifyAdvancePool(Pool, notify.recentlyAddedSequence))
  /\ removed' = << >>
  /\ lastOp' = [op |-> "NotifyAdvance"]
  /\ Forgets
  /\ UNCHANGED <<config, base, conc, estimator, audit, peer>>

\* CTxMemPool::IsFullyNotified(): the value it returns
IsFullyNotifiedOut(p) == p.nRecentlyAddedSequence = p.nNotifiedSequence

IsFullyNotified ==
  /\ config.regtest
  /\ Becomes(Pool)
  /\ removed' = << >>
  /\ lastOp' = [op |-> "IsFullyNotified", result |-> IsFullyNotifiedOut(Pool)]
  /\ Forgets
  /\ Idle

\* NotifyRecentlyAdded called by a second thread: its first block, under cs
peerNotifyRecentlyAdded ==
  /\ peer.pc = "idle"
  /\ \E garbled \in SUBSET DanglingRecent(Pool) :
       peer' = [pc |-> "deliver",
                recentlyAddedSequence |-> nRecentlyAddedSequence,
                txs |-> CopiesOf(InOrder(mapRecentlyAddedTx), garbled)]
  /\ Becomes(NotifyDrainPool(Pool))
  /\ removed' = << >>
  /\ lastOp' = [op |-> "peer.NotifyRecentlyAdded",
                batch |-> Cardinality(mapRecentlyAddedTx)]
  /\ Forgets
  /\ UNCHANGED <<config, base, notify, conc, estimator, audit>>

\* one SyncWithWallets call of the second thread
peerSyncWithWallets(outcome) ==
  /\ peer.pc = "deliver"
  /\ peer.txs # << >>
  /\ peer' = AfterSync(peer, outcome)
  /\ Becomes(Pool)
  /\ removed' = << >>
  /\ lastOp' = [op |-> "peer.SyncWithWallets", tx |-> Head(peer.txs),
                outcome |-> outcome]
  /\ Forgets
  /\ UNCHANGED <<config, base, notify, conc, estimator, audit>>

\* the last block of NotifyRecentlyAdded in the second thread
peerNotifyAdvance ==
  /\ peer.pc = "deliver"
  /\ peer.txs = << >>
  /\ peer' = NotifyIdle
  /\ Becomes(NotifyAdvancePool(Pool, peer.recentlyAddedSequence))
  /\ removed' = << >>
  /\ lastOp' = [op |-> "peer.NotifyAdvance"]
  /\ Forgets
  /\ UNCHANGED <<config, base, notify, conc, estimator, audit>>

(***************************************************************************)
(* The prioritisation table mapDeltas and the reserve annotations.  An     *)
(* entry of mapDeltas is a pair (double, CAmount).  A double is written    *)
(* [hi, lo] and holds the integer hi * 2^53 + lo with 0 <= lo far below    *)
(* 2^52: from 2^53 on the doubles are 2 apart, from 2^54 on 4 apart, from  *)
(* 2^55 on 8 apart, and an addition rounds to the nearest of them, a tie   *)
(* going to the one with the even significand.                             *)
(***************************************************************************)
\* the double with the value hi * 2^53 + lo
Double(hi, lo) == [hi |-> hi, lo |-> lo]

\* the distance between neighbouring doubles from hi * 2^53 upwards
Ulp(hi) ==
  IF hi = 0 THEN 1 ELSE IF hi = 1 THEN 2 ELSE IF hi < 4 THEN 4 ELSE 8

\* the double nearest to hi * 2^53 + lo, ties to even
RoundToDouble(hi, lo) ==
  LET u == Ulp(hi)
      q == lo \div u
      r == lo % u
      up == 2 * r > u \/ (2 * r = u /\ q % 2 = 1)
  IN Double(hi, (IF up THEN q + 1 ELSE q) * u)

\* operator+ of double
DoubleAdd(x, y) == RoundToDouble(x.hi + y.hi, x.lo + y.lo)

\* a value-initialized std::pair<double, CAmount>
NoDeltas == [first |-> Double(0, 0), second |-> 0]

\* mapDeltas[hash], which creates a value-initialized entry when there is none
DeltasAt(p, hash) ==
  IF hash \in DOMAIN p.mapDeltas THEN p.mapDeltas[hash] ELSE NoDeltas

\* PrioritiseTransaction adding the priority delta only
PrioritiseTransactionPool_NoFee(p, hash, dPriorityDelta, nFeeDelta) ==
  [p EXCEPT !.mapDeltas =
     MapPut(@, hash :> [first |-> DoubleAdd(DeltasAt(p, hash).first, dPriorityDelta),
                        second |-> DeltasAt(p, hash).second])]

\* PrioritiseTransaction counting itself as an update of the pool
PrioritiseTransactionPool_Counts(p, hash, dPriorityDelta, nFeeDelta) ==
  [p EXCEPT !.mapDeltas =
     MapPut(@, hash :> [first |-> DoubleAdd(DeltasAt(p, hash).first, dPriorityDelta),
                        second |-> DeltasAt(p, hash).second + nFeeDelta]),
            !.nTransactionsUpdated = @ + 1]

\* CTxMemPool::PrioritiseTransaction(hash, strHash, dPriorityDelta, nFeeDelta)
PrioritiseTransactionPool(p, hash, dPriorityDelta, nFeeDelta) ==
  [p EXCEPT !.mapDeltas =
     MapPut(@, hash :> [first |-> DoubleAdd(DeltasAt(p, hash).first, dPriorityDelta),
                        second |-> DeltasAt(p, hash).second + nFeeDelta])]

\* the number of calls the history holds for a set of hashes
RECURSIVE CallCount(_, _)
CallCount(hist, S) ==
  IF S = {} THEN 0
  ELSE LET h == CHOOSE x \in S : TRUE
       IN Len(hist[h]) + CallCount(hist, S \ {h})

\* the history after one more PrioritiseTransaction call for a hash
Remembers(hash, dPriorityDelta, nFeeDelta) ==
  LET old == IF hash \in DOMAIN prioritised THEN prioritised[hash] ELSE << >>
  IN prioritised' =
       MapPut(prioritised,
              hash :> Append(old, [dPriorityDelta |-> dPriorityDelta,
                                   nFeeDelta |-> nFeeDelta]))

\* the hashes given to the prioritisation operations
PrioHashes == {1, 2, 4}

\* the priority deltas given to PrioritiseTransaction: 1.0 and 2^53
PriorityDeltas == {Double(0, 1), Double(1, 0)}

\* the fee deltas given to PrioritiseTransaction
FeeDeltas == {1000}

PrioritiseTransaction(hash, dPriorityDelta, nFeeDelta) ==
  /\ CallCount(prioritised, DOMAIN prioritised) < MaxPrioritise
  /\ Becomes(PrioritiseTransactionPool(Pool, hash, dPriorityDelta, nFeeDelta))
  /\ removed' = << >>
  /\ lastOp' = [op |-> "PrioritiseTransaction", hash |-> hash]
  /\ Remembers(hash, dPriorityDelta, nFeeDelta)
  /\ Idle

\* CTxMemPool::ApplyDeltas(hash, dPriorityDelta, nFeeDelta): the values of
\* the two reference arguments when it returns
ApplyDeltasOut(p, hash, dPriorityDelta, nFeeDelta) ==
  IF hash \notin DOMAIN p.mapDeltas
    THEN [dPriorityDelta |-> dPriorityDelta, nFeeDelta |-> nFeeDelta]
    ELSE [dPriorityDelta |-> DoubleAdd(dPriorityDelta, p.mapDeltas[hash].first),
          nFeeDelta |-> nFeeDelta + p.mapDeltas[hash].second]

\* the values the caller's two variables hold when it calls ApplyDeltas
ApplyInits ==
  {[dPriorityDelta |-> Double(0, 0), nFeeDelta |-> 0],
   [dPriorityDelta |-> Double(0, 1), nFeeDelta |-> 7]}

ApplyDeltas(hash, dPriorityDelta, nFeeDelta) ==
  /\ Becomes(Pool)
  /\ removed' = << >>
  /\ lastOp' = [op |-> "ApplyDeltas", hash |-> hash,
                in |-> [dPriorityDelta |-> dPriorityDelta, nFeeDelta |-> nFeeDelta],
                out |-> ApplyDeltasOut(Pool, hash, dPriorityDelta, nFeeDelta)]
  /\ Forgets
  /\ Idle

\* CTxMemPool::ClearPrioritisation(hash) as an operation of the pool
ClearPrioritisation(hash) ==
  /\ Becomes(ClearPrioritisationPool(Pool, hash))
  /\ removed' = << >>
  /\ lastOp' = [op |-> "ClearPrioritisation", hash |-> hash,
                fEntry |-> hash \in DOMAIN mapDeltas,
                fReserve |-> hash \in mapReserveTransactions]
  /\ Forgets
  /\ Idle

\* CTxMemPool::PrioritiseReserveTransaction(txDesc, currencyState), with
\* fValid the value of txDesc.IsValid() and feeDelta the fee it computes
PrioritiseReserveTransactionPool_Unchecked(p, hash, fValid, feeDelta) ==
  PrioritiseTransactionPool(
    [p EXCEPT !.mapReserveTransactions = @ \cup {hash}],
    hash, Double(0, feeDelta * 100), feeDelta)

\* CTxMemPool::PrioritiseReserveTransaction(txDesc, currencyState): its
\* effect on the pool; fValid is txDesc.IsValid() and feeDelta the fee it
\* computes from the descriptor
PrioritiseReserveTransactionPool(p, hash, fValid, feeDelta) ==
  IF fValid
    THEN PrioritiseTransactionPool(
           [p EXCEPT !.mapReserveTransactions = @ \cup {hash}],
           hash, Double(0, feeDelta * 100), feeDelta)
    ELSE p

\* the fees PrioritiseReserveTransaction computes from its arguments
ReserveFeeDeltas == {1}

PrioritiseReserveTransaction(hash, fValid, feeDelta) ==
  /\ CallCount(prioritised, DOMAIN prioritised) < MaxPrioritise
  /\ Becomes(PrioritiseReserveTransactionPool(Pool, hash, fValid, feeDelta))
  /\ removed' = << >>
  /\ lastOp' = [op |-> "PrioritiseReserveTransaction", hash |-> hash,
                fValid |-> fValid, result |-> fValid]
  /\ IF fValid THEN Remembers(hash, Double(0, feeDelta * 100), feeDelta)
               ELSE Forgets
  /\ Idle

\* IsKnownReserveTransaction that leaves the annotation of a hash that is
\* no longer pooled in place
IsKnownReserveTransactionPool_NoHeal(p, hash) == p

\* CTxMemPool::IsKnownReserveTransaction(hash, txDesc): its effect on the pool
IsKnownReserveTransactionPool(p, hash) ==
  IF hash \in p.mapReserveTransactions /\ hash \notin p.mapTx
    THEN ClearPrioritisationPool(p, hash)
    ELSE p

IsKnownReserveTransaction(hash) ==
  /\ Becomes(IsKnownReserveTransactionPool(Pool, hash))
  /\ removed' = << >>
  /\ lastOp' = [op |-> "IsKnownReserveTransaction", hash |-> hash,
                fAnnotated |-> hash \in mapReserveTransactions,
                result |-> hash \in mapReserveTransactions /\ hash \in mapTx]
  /\ Forgets
  /\ Idle

Next ==
  \/ \E hash \in TxIds : addUnchecked(hash)
  \/ \E origTx \in TxIds, fRecursive \in BOOLEAN, removedIn \in RemovedInits :
       remove(origTx, fRecursive, removedIn)
  \/ \E tx \in TxIds : removeConflicts(tx, << >>)
  \/ \E vtx \in Blocks : removeForBlock(vtx, << >>)
  \/ \E pcoins \in CoinsViews, nMemPoolHeight \in ReorgHeights :
       removeForReorg(pcoins, nMemPoolHeight)
  \/ \E invalidRoot \in Anchors, type \in ShieldedTypes :
       removeWithAnchor(invalidRoot, type)
  \/ \E nBlockHeight \in ExpiryHeights, interest \in {{}, TxIds} :
       removeExpired(nBlockHeight, interest)
  \/ \E nMemPoolBranchId \in BranchIds : removeWithoutBranchId(nMemPoolBranchId)
  \/ clear
  \/ \E n \in 1..MaxAddN : AddTransactionsUpdated(n)

Spec == Init /\ [][Next]_vars

\* the blocks connected while the prioritisation table is explored
PrioBlocks == {<< 1 >>, << 2 >>, << 1, 2 >>}

NextPrio ==
  \/ \E hash \in PrioHashes, dPriorityDelta \in PriorityDeltas,
        nFeeDelta \in FeeDeltas :
       PrioritiseTransaction(hash, dPriorityDelta, nFeeDelta)
  \/ \E hash \in PrioHashes, init \in ApplyInits :
       ApplyDeltas(hash, init.dPriorityDelta, init.nFeeDelta)
  \/ \E hash \in PrioHashes : ClearPrioritisation(hash)
  \/ \E hash \in PrioHashes, fValid \in BOOLEAN, feeDelta \in ReserveFeeDeltas :
       PrioritiseReserveTransaction(hash, fValid, feeDelta)
  \/ \E hash \in PrioHashes : IsKnownReserveTransaction(hash)
  \/ \E hash \in PrioHashes :
       nTransactionsUpdated < MaxPrioUpdated /\ addUnchecked(hash)
  \/ \E vtx \in PrioBlocks :
       removeForBlock(vtx, << >>) /\ nTransactionsUpdated' <= MaxPrioUpdated
  \/ \E invalidRoot \in Anchors, type \in ShieldedTypes :
       removeWithAnchor(invalidRoot, type) /\ nTransactionsUpdated' <= MaxPrioUpdated

SpecPrio == Init /\ [][NextPrio]_vars

(***************************************************************************)
(* The pool with the optional indexes: transactions 1, 2 and 3 are added,  *)
(* indexed when the process runs with the index enabled, prioritised and   *)
(* removed.                                                                *)
(***************************************************************************)
\* the transactions added while the indexes are explored
IndexHashes == {1, 2, 3}

\* a process started with any setting of fAddressIndex and fSpentIndex
InitIndex ==
  /\ InitPool
  /\ config \in {c \in Configs : c.regtest}
  /\ base = EmptyView
  /\ notify = NotifyIdle
  /\ estimator = NoEstimates
  /\ peer = NotifyIdle
  /\ audit = NoAudit
  /\ conc = NoThreads

NextIndex ==
  \/ \E hash \in IndexHashes :
       nTransactionsUpdated < MaxIndexUpdated /\ addUnchecked(hash)
  \/ \E hash \in IndexHashes : addAddressIndex(hash)
  \/ \E hash \in IndexHashes : addSpentIndex(hash)
  \/ \E hash \in IndexHashes, nFeeDelta \in FeeDeltas :
       PrioritiseTransaction(hash, Double(0, 1), nFeeDelta)
  \/ \E origTx \in IndexHashes, fRecursive \in BOOLEAN :
       remove(origTx, fRecursive, << >>) /\ nTransactionsUpdated' <= MaxIndexUpdated
  \/ \E nBlockHeight \in ExpiryHeights :
       removeExpired(nBlockHeight, {}) /\ nTransactionsUpdated' <= MaxIndexUpdated

SpecIndex == InitIndex /\ [][NextIndex]_vars

(***************************************************************************)
(* The overlay over a backing view: transactions 1, 2 and 3 enter and      *)
(* leave the pool and the three queries of CCoinsViewMemPool are asked.    *)
(***************************************************************************)
\* the backing views: an empty one; one that holds the coins of the chain
\* transaction 0, the fully spent coins of 1 and coins of 2 confirmed at
\* height 5, with Sprout nullifier 1 and Sapling nullifier 3 spent
BackingViews ==
  { EmptyView,
    [coins |-> (0 :> [tx |-> 0, nHeight |-> 1, vout |-> {0}])
               @@ (1 :> [tx |-> 1, nHeight |-> 5, vout |-> {}])
               @@ (2 :> [tx |-> 2, nHeight |-> 5, vout |-> {0}]),
     nullifiers |-> [SPROUT |-> {1}, SAPLING |-> {3}]] }

InitView ==
  /\ InitPool
  /\ config = [regtest |-> TRUE, fAddressIndex |-> TRUE, fSpentIndex |-> TRUE]
  /\ base \in BackingViews
  /\ notify = NotifyIdle
  /\ estimator = NoEstimates
  /\ peer = NotifyIdle
  /\ audit = NoAudit
  /\ conc = NoThreads

NextView ==
  \/ \E hash \in IndexHashes :
       nTransactionsUpdated < MaxViewUpdated /\ addUnchecked(hash)
  \/ \E origTx \in IndexHashes :
       remove(origTx, TRUE, << >>) /\ nTransactionsUpdated' <= MaxViewUpdated
  \/ nTransactionsUpdated < MaxViewUpdated /\ clear
  \/ \E txid \in ViewTxids : GetCoins(txid)
  \/ \E nf \in ViewNullifiers, type \in ShieldedTypes : GetNullifier(nf, type)
  \/ \E txid \in ViewTxids : HaveCoins(txid)

SpecView == InitView /\ [][NextView]_vars

(***************************************************************************)
(* Notification: transactions 1, 2 and 3 enter and leave the pool while    *)
(* one thread calls NotifyRecentlyAdded, on regtest or on another network. *)
(***************************************************************************)
InitNotify ==
  /\ InitPool
  /\ config \in {c \in Configs : c.fAddressIndex /\ c.fSpentIndex}
  /\ base = EmptyView
  /\ notify = NotifyIdle
  /\ estimator = NoEstimates
  /\ peer = NotifyIdle
  /\ audit = NoAudit
  /\ conc = NoThreads

NextNotify ==
  \/ \E hash \in IndexHashes :
       nTransactionsUpdated < MaxNotifyUpdated /\ addUnchecked(hash)
  \/ \E origTx \in IndexHashes :
       remove(origTx, TRUE, << >>) /\ nTransactionsUpdated' <= MaxNotifyUpdated
  \/ nTransactionsUpdated < MaxNotifyUpdated /\ clear
  \/ NotifyRecentlyAdded
  \/ \E outcome \in SyncOutcomes : SyncWithWallets(outcome)
  \/ NotifyAdvance
  \/ IsFullyNotified

SpecNotify == InitNotify /\ [][NextNotify]_vars

\* two threads in NotifyRecentlyAdded on regtest
InitPeer ==
  /\ InitNotify
  /\ config.regtest

NextPeer ==
  \/ \E hash \in IndexHashes :
       nTransactionsUpdated < MaxPeerUpdated /\ addUnchecked(hash)
  \/ NotifyRecentlyAdded
  \/ \E outcome \in SyncOutcomes : SyncWithWallets(outcome)
  \/ NotifyAdvance
  \/ peerNotifyRecentlyAdded
  \/ \E outcome \in SyncOutcomes : peerSyncWithWallets(outcome)
  \/ peerNotifyAdvance
  \/ IsFullyNotified

SpecPeer == InitPeer /\ [][NextPeer]_vars

(***************************************************************************)
(* The lock: one thread adds and removes transactions 1, 2 and 3 statement *)
(* by statement while other threads read.                                  *)
(***************************************************************************)
InitConc ==
  /\ InitPool
  /\ config = [regtest |-> TRUE, fAddressIndex |-> TRUE, fSpentIndex |-> TRUE]
  /\ base = EmptyView
  /\ notify = NotifyIdle
  /\ estimator = NoEstimates
  /\ peer = NotifyIdle
  /\ audit = NoAudit
  /\ conc = Quiescent(Pool)

NextConc ==
  \/ \E hash \in IndexHashes : lockAddUnchecked(hash)
  \/ \E origTx \in IndexHashes : lockRemove(origTx)
  \/ statement
  \/ unlock
  \/ GetTransactionsUpdated
  \/ \E hash \in IndexHashes : lookup(hash)
  \/ \E nullifier \in ViewNullifiers, type \in ShieldedTypes :
       nullifierExists(nullifier, type)
  \/ check
  \/ checkLocked

SpecConc == InitConc /\ [][NextConc]_vars

(***************************************************************************)
(* WriteFeeEstimates and ReadFeeEstimates.  An estimates file is the       *)
(* sequence of the values written to it: the version required to read it,  *)
(* the version that wrote it and the data of the estimator.  Reading past  *)
(* the end of a file and writing to a file that takes no more throw        *)
(* std::ios_base::failure, a std::exception.                               *)
(***************************************************************************)
\* the version WriteFeeEstimates requires of a reader
VERSION_REQUIRED == 109900

\* the version of the running client
CLIENT_VERSION == 109950

\* the values a stream gives to "filein >> a >> b": threw when it ends first
ReadHeader(filein) ==
  IF Len(filein) < 2 THEN [threw |-> TRUE, rest |-> << >>]
  ELSE [threw |-> FALSE, nVersionRequired |-> filein[1],
        nVersionThatWrote |-> filein[2], rest |-> Tail(Tail(filein))]

\* minerPolicyEstimator->Read(filein): the data it reads replaces the
\* estimator's; it throws when the stream ends before the data
EstimatorRead(stats, rest) ==
  IF rest = << >> THEN [threw |-> TRUE, stats |-> stats]
  ELSE [threw |-> FALSE, stats |-> Head(rest)]

\* ReadFeeEstimates that hands every stream to the estimator
ReadFeeEstimatesOut_AnyVersion(stats, filein) ==
  LET h == ReadHeader(filein)
  IN IF h.threw THEN [result |-> FALSE, handed |-> FALSE, threw |-> TRUE, stats |-> stats]
     ELSE LET r == EstimatorRead(stats, h.rest)
          IN [result |-> ~r.threw, handed |-> TRUE, threw |-> r.threw,
              stats |-> r.stats]

\* CTxMemPool::ReadFeeEstimates(filein): the value returned, whether the
\* stream reached the estimator, whether an exception was caught, and the
\* estimator afterwards
ReadFeeEstimatesOut(stats, filein) ==
  LET h == ReadHeader(filein)
  IN IF h.threw THEN [result |-> FALSE, handed |-> FALSE, threw |-> TRUE, stats |-> stats]
     ELSE IF h.nVersionRequired > CLIENT_VERSION
       THEN [result |-> FALSE, handed |-> FALSE, threw |-> FALSE, stats |-> stats]
     ELSE LET r == EstimatorRead(stats, h.rest)
          IN [result |-> ~r.threw, handed |-> TRUE, threw |-> r.threw,
              stats |-> r.stats]

\* the estimates files read: complete ones written for this version, an
\* older and a newer one, and files that end early
EstimatesFiles ==
  {<< v, CLIENT_VERSION, d >> :
     v \in {VERSION_REQUIRED, CLIENT_VERSION, CLIENT_VERSION + 1}, d \in {1, 2}}
  \cup {<< >>, << VERSION_REQUIRED >>, << VERSION_REQUIRED, CLIENT_VERSION >>,
        << CLIENT_VERSION + 1, CLIENT_VERSION + 1 >>}

ReadFeeEstimates(filein) ==
  LET r == ReadFeeEstimatesOut(estimator, filein)
  IN /\ estimator' = r.stats
     /\ Becomes(Pool)
     /\ removed' = << >>
     /\ lastOp' = [op |-> "ReadFeeEstimates", filein |-> filein,
                   result |-> r.result, handed |-> r.handed, threw |-> r.threw]
     /\ Forgets
     /\ UNCHANGED <<config, base, notify, conc, audit, peer>>

\* CTxMemPool::WriteFeeEstimates(fileout) on a stream that takes room
\* values: the value returned and what the stream holds afterwards
WriteFeeEstimatesOut(stats, room) ==
  LET all == << VERSION_REQUIRED, CLIENT_VERSION, stats >>
  IN IF room >= Len(all) THEN [result |-> TRUE, threw |-> FALSE, fileout |-> all]
     ELSE [result |-> FALSE, threw |-> TRUE, fileout |-> SubSeq(all, 1, room)]

WriteFeeEstimates(room) ==
  LET w == WriteFeeEstimatesOut(estimator, room)
  IN /\ Becomes(Pool)
     /\ removed' = << >>
     /\ lastOp' = [op |-> "WriteFeeEstimates", result |-> w.result,
                   threw |-> w.threw, fileout |-> w.fileout]
     /\ Forgets
     /\ Idle

\* a pool just constructed
NewPool ==
  [mapTx |-> {}, mapNextTx |-> << >>, mapSproutNullifiers |-> << >>,
   mapSaplingNullifiers |-> << >>, mapRecentlyAddedTx |-> {},
   nRecentlyAddedSequence |-> 0, nNotifiedSequence |-> 0,
   nTransactionsUpdated |-> 0, totalTxSize |-> 0, cachedInnerUsage |-> 0,
   mapDeltas |-> << >>, mapReserveTransactions |-> {},
   mapAddress |-> {}, mapAddressInserted |-> << >>, mapSpent |-> << >>,
   mapSpentInserted |-> << >>, overwritten |-> {}]

\* the pool is p
Holds(p) ==
  /\ mapTx = p.mapTx
  /\ mapNextTx = p.mapNextTx
  /\ mapSproutNullifiers = p.mapSproutNullifiers
  /\ mapSaplingNullifiers = p.mapSaplingNullifiers
  /\ mapRecentlyAddedTx = p.mapRecentlyAddedTx
  /\ nRecentlyAddedSequence = p.nRecentlyAddedSequence
  /\ nNotifiedSequence = p.nNotifiedSequence
  /\ nTransactionsUpdated = p.nTransactionsUpdated
  /\ totalTxSize = p.totalTxSize
  /\ cachedInnerUsage = p.cachedInnerUsage
  /\ mapDeltas = p.mapDeltas
  /\ mapReserveTransactions = p.mapReserveTransactions
  /\ mapAddress = p.mapAddress
  /\ mapAddressInserted = p.mapAddressInserted
  /\ mapSpent = p.mapSpent
  /\ mapSpentInserted = p.mapSpentInserted

(***************************************************************************)
(* Fee estimates: files are read and written over a pool that holds        *)
(* nothing, transaction 1, or transactions 1 and 2, while transactions are *)
(* prioritised.                                                            *)
(***************************************************************************)
FeePools ==
  {NewPool, AddUncheckedPool(NewPool, 1),
   AddUncheckedPool(AddUncheckedPool(NewPool, 1), 2)}

InitFee ==
  /\ \E p \in FeePools : Holds(p)
  /\ removed = << >>
  /\ lastOp = Op("init", FALSE, FALSE)
  /\ prioritised = << >>
  /\ config = [regtest |-> TRUE, fAddressIndex |-> TRUE, fSpentIndex |-> TRUE]
  /\ base = EmptyView
  /\ notify = NotifyIdle
  /\ estimator \in {NoEstimates, 1}
  /\ peer = NotifyIdle
  /\ audit = NoAudit
  /\ conc = NoThreads

NextFee ==
  \/ \E filein \in EstimatesFiles : ReadFeeEstimates(filein)
  \/ \E room \in 0..3 : WriteFeeEstimates(room)
  \/ \E hash \in {1, 2}, nFeeDelta \in FeeDeltas :
       PrioritiseTransaction(hash, Double(0, 1), nFeeDelta)

SpecFee == InitFee /\ [][NextFee]_vars

(***************************************************************************)
(* addUnchecked without the acceptance pipeline: any of the transactions   *)
(* is added, pooled or not, conflicting or not, and removed again.         *)
(***************************************************************************)
NextRaw ==
  \/ \E hash \in TxIds : addUncheckedByAnyCaller(hash)
  \/ \E origTx \in TxIds, fRecursive \in BOOLEAN :
       remove(origTx, fRecursive, << >>) /\ nTransactionsUpdated' <= MaxRawUpdated

SpecRaw == Init /\ [][NextRaw]_vars

(***************************************************************************)
(* check(pcoins).  The coins view it is given is base.  mempoolDuplicate,  *)
(* the cache the function lays over that view, is the set of the outpoints *)
(* it has coins for.  The call up to the end of the loop over mapTx is one *)
(* step, every pass through the loop over waitingOnDependants is one step  *)
(* and the rest of the function is one step; the lock is held from the     *)
(* first to the last, and a failed assertion ends the process.             *)
(***************************************************************************)
\* the outpoints a coins view has available coins for
AvailableIn(view) ==
  UNION {{<<h, i>> : i \in view.coins[h].vout} : h \in DOMAIN view.coins}

\* CCoinsViewCache::HaveInputs(tx)
HaveInputs(hash, available) == Prevouts(hash) \subseteq available

\* Consensus::CheckTxInputs(tx, state, inputs, nSpendHeight, params), for
\* transactions that pass every check of it other than the presence of
\* their inputs
CheckTxInputs(hash, available) == HaveInputs(hash, available)

\* UpdateCoins(tx, inputs, 1000000): the inputs are spent and the outputs
\* become available
UpdateCoins(hash, available) ==
  (available \ Prevouts(hash)) \cup {<<hash, i>> : i \in 0 .. Tx(hash).nvout - 1}

\* the line of the first assertion on the inputs i, i + 1, ... of a
\* transaction that fails, 0 when none does
RECURSIVE InputsAssert(_, _, _, _)
InputsAssert(p, view, hash, i) ==
  IF i > Len(Tx(hash).vin) THEN 0
  ELSE LET prevout == Tx(hash).vin[i]
           fPooled == prevout[1] \in p.mapTx
       IN IF fPooled /\ ~(Tx(prevout[1]).nvout > prevout[2]) THEN 542
          ELSE IF ~fPooled /\ prevout \notin AvailableIn(view) THEN 546
          ELSE IF prevout \notin DOMAIN p.mapNextTx THEN 550
          ELSE IF p.mapNextTx[prevout].ptx # hash THEN 551
          ELSE IF p.mapNextTx[prevout].n # i - 1 THEN 552
          ELSE InputsAssert(p, view, hash, i + 1)

\* the line of the first assertion of the body of the loop over mapTx that
\* fails for a transaction, before it is replayed or deferred; the view
\* knows every anchor
TxAssert(p, view, hash) ==
  LET l == InputsAssert(p, view, hash, 1)
  IN IF l # 0 THEN l
     ELSE IF SproutNullifiers(hash) \cap view.nullifiers["SPROUT"] # {} THEN 560
     ELSE IF SaplingNullifiers(hash) \cap view.nullifiers["SAPLING"] # {} THEN 582
     ELSE 0

\* fDependsWait: some input refers to a pooled transaction
DependsWait(p, hash) == \E prevout \in Prevouts(hash) : prevout[1] \in p.mapTx

\* the loop over mapTx, visiting the transactions in the given order
RECURSIVE ScanFrom(_, _, _, _)
ScanFrom(p, view, order, a) ==
  IF order = << >> \/ a.line # 0 THEN a
  ELSE LET hash == Head(order)
           l == TxAssert(p, view, hash)
       IN IF l # 0 THEN [a EXCEPT !.line = l]
          ELSE IF DependsWait(p, hash)
            THEN ScanFrom(p, view, Tail(order),
                          [a EXCEPT !.waiting = Append(@, hash)])
          ELSE IF ~CheckTxInputs(hash, a.available) THEN [a EXCEPT !.line = 590]
          ELSE ScanFrom(p, view, Tail(order),
                        [a EXCEPT !.available = UpdateCoins(hash, @),
                                  !.replayed = @ \cup {hash}])

\* the loop over waitingOnDependants with a fixed allowance of passes
RetryStep_SingleAllowance(a) ==
  LET entry == Head(a.waiting)
  IN IF ~HaveInputs(entry, a.available)
       THEN [a EXCEPT !.waiting = Append(Tail(a.waiting), entry),
                      !.stepsSinceLastRemove = @ + 1,
                      !.iterations = @ + 1,
                      !.line = IF a.stepsSinceLastRemove + 1 < 2 THEN 0 ELSE 602]
       ELSE [a EXCEPT !.waiting = Tail(a.waiting),
                      !.available = UpdateCoins(entry, @),
                      !.replayed = @ \cup {entry},
                      !.stepsSinceLastRemove = 0,
                      !.iterations = @ + 1]

\* one pass through the loop over waitingOnDependants
RetryStep(a) ==
  LET entry == Head(a.waiting)
  IN IF ~HaveInputs(entry, a.available)
       THEN [a EXCEPT !.waiting = Append(Tail(a.waiting), entry),
                      !.stepsSinceLastRemove = @ + 1,
                      !.iterations = @ + 1,
                      !.line = IF a.stepsSinceLastRemove + 1 < Len(a.waiting)
                                 THEN 0 ELSE 602]
       ELSE IF ~CheckTxInputs(entry, a.available)
         THEN [a EXCEPT !.waiting = Tail(a.waiting), !.iterations = @ + 1,
                        !.line = 606]
       ELSE [a EXCEPT !.waiting = Tail(a.waiting),
                      !.available = UpdateCoins(entry, @),
                      !.replayed = @ \cup {entry},
                      !.stepsSinceLastRemove = 0,
                      !.iterations = @ + 1]

\* the line of the first assertion that fails after the loop over
\* waitingOnDependants, 0 when none does: the loop over mapNextTx,
\* checkNullifiers for both types, and the two totals
EndAssert(p) ==
  IF \E o \in DOMAIN p.mapNextTx : p.mapNextTx[o].ptx \notin p.mapTx THEN 615
  ELSE IF \E o \in DOMAIN p.mapNextTx :
            ~(Len(Tx(p.mapNextTx[o].ptx).vin) > p.mapNextTx[o].n) THEN 617
  ELSE IF \E o \in DOMAIN p.mapNextTx :
            Tx(p.mapNextTx[o].ptx).vin[p.mapNextTx[o].n + 1] # o THEN 618
  ELSE IF \E nf \in DOMAIN p.mapSproutNullifiers :
            p.mapSproutNullifiers[nf] \notin p.mapTx THEN 645
  ELSE IF \E nf \in DOMAIN p.mapSaplingNullifiers :
            p.mapSaplingNullifiers[nf] \notin p.mapTx THEN 645
  ELSE IF p.totalTxSize # SumTxSize(p.mapTx) THEN 624
  ELSE IF p.cachedInnerUsage # SumUsageSize(p.mapTx) THEN 625
  ELSE 0

\* the orders in which the transactions of a set may be visited
Orders(S) ==
  {order \in [1 .. Cardinality(S) -> S] :
     \A i, j \in DOMAIN order : order[i] = order[j] => i = j}

\* the call after a step that leaves the local variables a
AfterStep(a) ==
  [a EXCEPT !.pc = IF a.line # 0 THEN "asserted" ELSE "loop"]

\* check(pcoins) up to the loop over waitingOnDependants, the random sample
\* being rand and mapTx being visited in the given order
checkScan(rand, order) ==
  /\ audit.pc = "idle"
  /\ IF audit.nCheckFrequency = 0 \/ rand >= audit.nCheckFrequency
       THEN /\ audit' = audit
            /\ lastOp' = [op |-> "check", ran |-> FALSE]
       ELSE /\ audit' = AfterStep(ScanFrom(Pool, base, order,
                          [audit EXCEPT !.available = AvailableIn(base)]))
            /\ lastOp' = [op |-> "check", ran |-> TRUE]
  /\ Becomes(Pool)
  /\ removed' = << >>
  /\ Forgets
  /\ UNCHANGED <<config, base, notify, conc, estimator, peer>>

\* one pass through the loop over waitingOnDependants
checkRetry ==
  /\ audit.pc = "loop"
  /\ audit.waiting # << >>
  /\ audit' = AfterStep(RetryStep(audit))
  /\ Becomes(Pool)
  /\ removed' = << >>
  /\ lastOp' = [op |-> "checkRetry"]
  /\ Forgets
  /\ UNCHANGED <<config, base, notify, conc, estimator, peer>>

\* check() ending with mempoolDuplicate.Flush()
ViewAfterCheck_Flushed(view, available) ==
  [view EXCEPT !.coins =
     [h \in {o[1] : o \in available} |->
        [tx |-> h, nHeight |-> 1000000,
         vout |-> {o[2] : o \in {x \in available : x[1] = h}}]]]

\* the view given to check() when the function returns: mempoolDuplicate
\* is destroyed without having been flushed
ViewAfterCheck(view, available) == view

\* check(pcoins) after the loop over waitingOnDependants
checkEnd ==
  /\ audit.pc = "loop"
  /\ audit.waiting = << >>
  /\ audit' = IF EndAssert(Pool) # 0
                THEN [audit EXCEPT !.pc = "asserted", !.line = EndAssert(Pool)]
                ELSE [NoAudit EXCEPT !.nCheckFrequency = audit.nCheckFrequency]
  /\ Becomes(Pool)
  /\ removed' = << >>
  /\ lastOp' = [op |-> "checkEnd", replayed |-> audit.replayed,
                iterations |-> audit.iterations]
  /\ Forgets
  /\ base' = ViewAfterCheck(base, audit.available)
  /\ UNCHANGED <<config, notify, conc, estimator, peer>>

(***************************************************************************)
(* The audit: transactions 1, 2, 3 and 6 enter and leave a pool that is    *)
(* checked, sometimes or never, against a view in which the output that    *)
(* transaction 1 spends is unspent, or one in which transaction 1 is       *)
(* confirmed.                                                              *)
(***************************************************************************)
CheckViews ==
  { [coins |-> (0 :> [tx |-> 0, nHeight |-> 1, vout |-> {0}]),
     nullifiers |-> [SPROUT |-> {}, SAPLING |-> {}]],
    [coins |-> (0 :> [tx |-> 0, nHeight |-> 1, vout |-> {}])
               @@ (1 :> [tx |-> 1, nHeight |-> 5, vout |-> {0, 1}]),
     nullifiers |-> [SPROUT |-> {}, SAPLING |-> {}]] }

CheckHashes == {1, 2, 3, 6}

InitCheck ==
  /\ InitPool
  /\ config = [regtest |-> TRUE, fAddressIndex |-> TRUE, fSpentIndex |-> TRUE]
  /\ base \in CheckViews
  /\ notify = NotifyIdle
  /\ estimator = NoEstimates
  /\ peer = NotifyIdle
  /\ audit \in {[NoAudit EXCEPT !.nCheckFrequency = f] : f \in {0, 1}}
  /\ conc = NoThreads

NextCheck ==
  \/ \E hash \in CheckHashes :
       /\ audit.pc = "idle"
       /\ nTransactionsUpdated < MaxCheckUpdated
       /\ addUnchecked(hash)
  \/ \E origTx \in CheckHashes, fRecursive \in BOOLEAN :
       /\ audit.pc = "idle"
       /\ remove(origTx, fRecursive, << >>)
       /\ nTransactionsUpdated' <= MaxCheckUpdated
  \/ \E rand \in {0, 1}, order \in Orders(mapTx) : checkScan(rand, order)
  \/ checkRetry
  \/ checkEnd

SpecCheck == InitCheck /\ [][NextCheck]_vars

(***************************************************************************)
(* The loop over waitingOnDependants as a function of what it starts from: *)
(* any list of up to MaxWaiting of the transactions 1 to 5 without         *)
(* repetition, over any set of available outpoints.                        *)
(***************************************************************************)
WaitingHashes == {1, 2, 3, 4, 5}

EntryOutpoints == {<<0, 0>>, <<1, 0>>, <<1, 1>>, <<2, 0>>, <<4, 0>>}

InitWorklist ==
  /\ InitPool
  /\ config = [regtest |-> TRUE, fAddressIndex |-> TRUE, fSpentIndex |-> TRUE]
  /\ base = EmptyView
  /\ notify = NotifyIdle
  /\ estimator = NoEstimates
  /\ peer = NotifyIdle
  /\ conc = NoThreads
  /\ \E S \in SUBSET WaitingHashes, available \in SUBSET EntryOutpoints :
       /\ Cardinality(S) \in 1 .. MaxWaiting
       /\ \E waiting \in Orders(S) :
            audit = [NoAudit EXCEPT
                       !.nCheckFrequency = 1, !.pc = "loop",
                       !.waiting = waiting, !.available = available,
                       !.entry = [waiting |-> waiting, available |-> available]]

NextWorklist ==
  \/ checkRetry
  \/ checkEnd

SpecWorklist == InitWorklist /\ [][NextWorklist]_vars

(***************************************************************************)
(* Properties.                                                             *)
(***************************************************************************)
\* the pooled transactions of S reachable from the set D by "spends an
\* output of", D included
RECURSIVE SpendClosure(_, _)
SpendClosure(S, D) ==
  LET next == D \cup {b \in S : \E a \in D : SpendsOutputOf(b, a)}
  IN IF next = D THEN D ELSE SpendClosure(S, next)

\* the transitive pooled descendants of a transaction t, pooled or not
Descendants(S, t) ==
  SpendClosure(S, {b \in S : SpendsOutputOf(b, t)})

\* the positions of a hash in a list
Positions(list, h) == {i \in DOMAIN list : list[i] = h}

\* the nullifiers of the exploration
NullifierValues == {1, 2, 3}

\* the operations built on remove()
RemovalOps ==
  {"remove", "removeConflicts", "removeForBlock", "removeForReorg",
   "removeWithAnchor", "removeExpired", "removeWithoutBranchId"}

\* C1 (as claimed): for every pooled transaction T and every input position
\* i of T, mapNextTx has an entry for the outpoint of input i and the entry
\* points to exactly (T, i).
C1_ClosureAllPooled ==
  \A t \in mapTx : \A i \in DOMAIN Tx(t).vin :
    /\ Tx(t).vin[i] \in DOMAIN mapNextTx
    /\ mapNextTx[Tx(t).vin[i]] = [ptx |-> t, n |-> i - 1]

\* C2: no two distinct pooled transactions spend the same transparent
\* outpoint, the same Sprout nullifier or the same Sapling nullifier.
C2_NoDoubleSpend ==
  \A a \in mapTx, b \in mapTx : a # b => ~Conflicting(a, b)

\* C2 witness: two transactions are pooled together, one with a Sprout
\* spend and one with a Sapling spend.
C2_Witness ==
  \E a \in mapTx, b \in mapTx :
    a # b /\ SproutNullifiers(a) # {} /\ SaplingNullifiers(b) # {}

\* C3 (as claimed): a nullifier is in the Sprout (Sapling) index, and
\* nullifierExists answers true for it, exactly when a pooled transaction
\* has a Sprout (Sapling) spend with it, and the entry names that transaction.
C3_NullifierLockstep ==
  \A nf \in NullifierValues :
    /\ NullifierExists(Pool, nf, "SPROUT")
         <=> \E t \in mapTx : nf \in SproutNullifiers(t)
    /\ NullifierExists(Pool, nf, "SAPLING")
         <=> \E t \in mapTx : nf \in SaplingNullifiers(t)
    /\ nf \in DOMAIN mapSproutNullifiers =>
         /\ mapSproutNullifiers[nf] \in mapTx
         /\ nf \in SproutNullifiers(mapSproutNullifiers[nf])
    /\ nf \in DOMAIN mapSaplingNullifiers =>
         /\ mapSaplingNullifiers[nf] \in mapTx
         /\ nf \in SaplingNullifiers(mapSaplingNullifiers[nf])

\* C4: totalTxSize is the sum of the sizes of the pooled entries and
\* cachedInnerUsage the sum of their memory usage.
C4_CounterCoherence ==
  /\ totalTxSize = SumTxSize(mapTx)
  /\ cachedInnerUsage = SumUsageSize(mapTx)

\* C4 witness: a removal has taken a transaction out and has left a pool
\* that still holds two.
C4_Witness ==
  /\ lastOp.op \in RemovalOps
  /\ \E i \in DOMAIN removed : removed[i] \in TxIds
  /\ Cardinality(mapTx) >= 2
  /\ totalTxSize > 0

\* C5 (as claimed): addUnchecked raises the update counter by exactly 1,
\* every operation that removes (clear included) raises it by exactly the
\* number of transactions it removed from mapTx, and no operation lowers it.
C5_UpdateCounterAsClaimed ==
  [][/\ lastOp'.op = "addUnchecked" =>
          nTransactionsUpdated' = nTransactionsUpdated + 1
     /\ lastOp'.op \in RemovalOps \cup {"clear"} =>
          nTransactionsUpdated' =
            nTransactionsUpdated + Cardinality(mapTx) - Cardinality(mapTx')
     /\ nTransactionsUpdated' >= nTransactionsUpdated]_vars

\* C5 (amended): addUnchecked raises the update counter by exactly 1, every
\* operation built on remove() raises it by exactly the number of
\* transactions it removed from mapTx, clear raises it by exactly 1 whatever
\* the pool holds, AddTransactionsUpdated(n) raises it by n, and no
\* operation lowers it.
C5_UpdateCounter ==
  [][/\ lastOp'.op = "addUnchecked" =>
          nTransactionsUpdated' = nTransactionsUpdated + 1
     /\ lastOp'.op \in RemovalOps =>
          /\ mapTx' \subseteq mapTx
          /\ nTransactionsUpdated' =
               nTransactionsUpdated + Cardinality(mapTx) - Cardinality(mapTx')
     /\ lastOp'.op = "clear" =>
          nTransactionsUpdated' = nTransactionsUpdated + 1
     /\ lastOp'.op = "AddTransactionsUpdated" =>
          /\ nTransactionsUpdated' - nTransactionsUpdated \in 1..MaxAddN
          /\ mapTx' = mapTx
     /\ nTransactionsUpdated' >= nTransactionsUpdated]_vars

\* C5 witness: clear has emptied a pool of two or more transactions and the
\* counter stands at the number of insertions plus one.
C5_Witness ==
  /\ lastOp.op = "clear"
  /\ nRecentlyAddedSequence >= 2
  /\ nTransactionsUpdated = nRecentlyAddedSequence + 1

\* C6: remove(T, recursive) on a pooled T removes T and every transitive
\* pooled descendant of T, and nothing else.
C6_RecursiveRemoval ==
  [][lastOp' = Op("remove", TRUE, TRUE) =>
       \A t \in mapTx, removedIn \in RemovedInits :
         remove(t, TRUE, removedIn) =>
           mapTx' = mapTx \ ({t} \cup Descendants(mapTx, t))]_vars

\* C6 witness: a recursive remove of a pooled transaction has removed it with
\* a descendant and has left another transaction pooled.
C6_Witness ==
  /\ lastOp = Op("remove", TRUE, TRUE)
  /\ \E i \in DOMAIN removed, j \in DOMAIN removed :
       /\ removed[i] \in TxIds /\ removed[j] \in TxIds
       /\ SpendsOutputOf(removed[j], removed[i])
  /\ mapTx # {}

\* C7: after remove(A, recursive) with A pooled and B a pooled spender of an
\* output of A, both are out of the pool and in the caller's list, which
\* keeps what it held, and A comes in it before every descendant of A.
C7_RootFirst ==
  [][lastOp' = Op("remove", TRUE, TRUE) =>
     \A a \in mapTx, removedIn \in RemovedInits :
       remove(a, TRUE, removedIn) =>
         /\ SubSeq(removed', 1, Len(removedIn)) = removedIn
         /\ Len(removed') > Len(removedIn)
         /\ removed'[Len(removedIn) + 1] = a
         /\ a \notin mapTx'
         /\ \A b \in mapTx : SpendsOutputOf(b, a) =>
              /\ b \notin mapTx'
              /\ Positions(removed', b) # {}
         /\ \A d \in Descendants(mapTx, a) :
              \A i \in Positions(removed', d) : i > Len(removedIn) + 1]_vars

\* C7 witness: a recursive remove has appended a pooled root, its child and
\* its grandchild to a list that already held an element.
C7_Witness ==
  /\ lastOp = Op("remove", TRUE, TRUE)
  /\ Len(removed) = 4
  /\ removed[1] = 9
  /\ SpendsOutputOf(removed[3], removed[2])
  /\ SpendsOutputOf(removed[4], removed[3])

\* C8: remove(A, non-recursive) removes A at most; every other pooled
\* transaction stays pooled, and the Spend Index and nullifier index entries
\* of its own spends are as they were.
C8_NonRecursiveFrame ==
  [][lastOp'.op = "remove" /\ ~lastOp'.fRecursive =>
     \A a \in TxIds, removedIn \in RemovedInits :
       remove(a, FALSE, removedIn) =>
         /\ mapTx' = mapTx \ {a}
         /\ \A b \in mapTx \ {a} :
              /\ \A o \in Prevouts(b) :
                   /\ o \in DOMAIN mapNextTx' <=> o \in DOMAIN mapNextTx
                   /\ o \in DOMAIN mapNextTx => mapNextTx'[o] = mapNextTx[o]
              /\ \A nf \in SproutNullifiers(b) :
                   /\ nf \in DOMAIN mapSproutNullifiers'
                        <=> nf \in DOMAIN mapSproutNullifiers
                   /\ nf \in DOMAIN mapSproutNullifiers =>
                        mapSproutNullifiers'[nf] = mapSproutNullifiers[nf]
              /\ \A nf \in SaplingNullifiers(b) :
                   /\ nf \in DOMAIN mapSaplingNullifiers'
                        <=> nf \in DOMAIN mapSaplingNullifiers
                   /\ nf \in DOMAIN mapSaplingNullifiers =>
                        mapSaplingNullifiers'[nf] = mapSaplingNullifiers[nf]]_vars

\* C8 witness: a non-recursive remove has taken a pooled transaction out and
\* a transaction that spends its output is still pooled and indexed.
C8_Witness ==
  /\ lastOp = Op("remove", FALSE, TRUE)
  /\ Len(removed) >= 1
  /\ \E b \in mapTx :
       /\ SpendsOutputOf(b, removed[Len(removed)])
       /\ \A o \in Prevouts(b) :
            o \in DOMAIN mapNextTx /\ mapNextTx[o].ptx = b
       /\ \A nf \in SproutNullifiers(b) :
            nf \in DOMAIN mapSproutNullifiers /\ mapSproutNullifiers[nf] = b

\* C9: remove(T, recursive) with T not pooled removes the pooled spenders of
\* T's outputs with all their pooled descendants (and nothing else);
\* remove(T, non-recursive) with T not pooled changes nothing: pool,
\* indexes, counters, tables and the caller's list.
C9_RemoveAbsent ==
  [][lastOp'.op = "remove" /\ ~lastOp'.fPooled =>
     \A t \in TxIds \ mapTx, removedIn \in RemovedInits :
       /\ remove(t, TRUE, removedIn) =>
            mapTx' = mapTx \ Descendants(mapTx, t)
       /\ remove(t, FALSE, removedIn) =>
            /\ Pool' = Pool
            /\ removed' = removedIn]_vars

\* C9 witness: a recursive remove of a transaction that was not pooled has
\* removed a spender of its output and a descendant of that spender.
C9_Witness ==
  /\ lastOp = Op("remove", TRUE, FALSE)
  /\ Len(removed) >= 2
  /\ \E i \in DOMAIN removed, j \in DOMAIN removed :
       i < j /\ removed[i] \in TxIds /\ removed[j] \in TxIds
             /\ SpendsOutputOf(removed[j], removed[i])

\* C10: after removeConflicts(tx, removed), no pooled transaction other than
\* tx spends an outpoint or a nullifier that tx spends, and every
\* transaction that did, with each of its pooled descendants, is in the
\* caller's list exactly once; the set does not depend on any lookup order.
C10_ConflictsRemoved ==
  [][lastOp'.op = "removeConflicts" =>
     \A tx \in TxIds :
       removeConflicts(tx, << >>) =>
         /\ \A b \in mapTx' \ {tx} : ~Conflicting(b, tx)
         /\ LET losers == {b \in mapTx \ {tx} : Conflicting(b, tx)}
            IN \A d \in SpendClosure(mapTx, losers) :
                 /\ d \notin mapTx'
                 /\ Cardinality(Positions(removed', d)) = 1
         /\ \A h \in Range(removed') :
              Cardinality(Positions(removed', h)) = 1]_vars

\* C10 witness: removeConflicts has removed a transaction together with two
\* of its descendants.
C10_Witness ==
  /\ lastOp.op = "removeConflicts"
  /\ Len(removed) >= 3
  /\ SpendsOutputOf(removed[2], removed[1])
  /\ SpendsOutputOf(removed[3], removed[2])

\* the anchors of the shielded spends of one type of a transaction
AnchorsOf(t, type) ==
  IF type = "SPROUT"
    THEN {Tx(t).vJoinSplit[j].anchor : j \in DOMAIN Tx(t).vJoinSplit}
    ELSE {Tx(t).vShieldedSpend[j].anchor : j \in DOMAIN Tx(t).vShieldedSpend}

\* a transaction has an input whose source transaction is neither in the
\* set S of pooled transactions nor in the UTXO snapshot
MissingInput(S, pcoins, t) ==
  \E o \in Prevouts(t) : o[1] \notin S /\ o[1] \notin DOMAIN pcoins

\* a removal has happened since construction
SomeRemoved == Cardinality(mapTx) < nRecentlyAddedSequence

\* C11 (as claimed): removeForBlock(vtx) leaves no transaction of vtx pooled,
\* keeps every pooled descendant of a transaction of vtx that conflicts with
\* nothing in vtx, and puts in conflicts only transactions that conflicted
\* with a transaction of vtx, or their descendants, never one of vtx.
C11_RemoveForBlockAsClaimed ==
  [][lastOp'.op = "removeForBlock" =>
     \A vtx \in Blocks :
       removeForBlock(vtx, << >>) =>
         LET block == Range(vtx)
             losers == {b \in mapTx \ block :
                          \E a \in block : Conflicting(b, a)}
         IN /\ mapTx' \cap block = {}
            /\ \A d \in mapTx \ block :
                 /\ \E a \in block : d \in Descendants(mapTx, a)
                 /\ \A a \in block : ~Conflicting(d, a)
                 => d \in mapTx'
            /\ \A h \in Range(removed') :
                 h \notin block /\ h \in SpendClosure(mapTx, losers)]_vars

C14_ReorgPostcondition ==
  [][lastOp'.op = "removeForReorg" =>
     \A pcoins \in CoinsViews, nMemPoolHeight \in ReorgHeights :
       removeForReorg(pcoins, nMemPoolHeight) =>
         /\ \A t \in mapTx' : CheckFinalTx(t, nMemPoolHeight)
         /\ \A t \in mapTx' : Tx(t).spendsCoinbase =>
              \A o \in Prevouts(t) :
                ~ /\ o[1] \in DOMAIN pcoins
                  /\ pcoins[o[1]].fCoinBase
                  /\ nMemPoolHeight - pcoins[o[1]].nHeight < COINBASE_MATURITY
         /\ \A t \in mapTx \ mapTx' :
              Descendants(mapTx, t) \cap mapTx' = {}]_vars

\* C14 witness: after removeForReorg and a removal, a transaction flagged as
\* spending a coinbase is still pooled.
C14_Witness ==
  /\ lastOp.op = "removeForReorg"
  /\ SomeRemoved
  /\ \E t \in mapTx : Tx(t).spendsCoinbase

\* C15: removeWithAnchor(root, type) removes exactly the pooled transactions
\* that have a spend of that type anchored at root and their pooled
\* descendants; a transaction whose spend anchored at root is of the other
\* type, and which descends from none of those, stays pooled.
C15_AnchorRemoval ==
  [][lastOp'.op = "removeWithAnchor" =>
     \A invalidRoot \in Anchors, type \in ShieldedTypes :
       removeWithAnchor(invalidRoot, type) =>
         LET hit == {t \in mapTx : invalidRoot \in AnchorsOf(t, type)}
         IN mapTx' = mapTx \ SpendClosure(mapTx, hit)]_vars

\* C15 witness: after removeWithAnchor and a removal, a transaction with a
\* Sprout spend anchored at a root is pooled while the transaction with the
\* Sapling spend anchored at the same root is not.
C15_Witness ==
  /\ lastOp.op = "removeWithAnchor"
  /\ SomeRemoved
  /\ \E t \in mapTx, u \in TxIds \ mapTx :
       AnchorsOf(t, "SPROUT") \cap AnchorsOf(u, "SAPLING") # {}

\* C17: after removeWithoutBranchId(b) every pooled transaction has branch
\* id b, and a removed transaction with branch id b is a descendant of a
\* pooled transaction with another branch id.
C17_BranchIdRemoval ==
  [][lastOp'.op = "removeWithoutBranchId" =>
     \A b \in BranchIds :
       removeWithoutBranchId(b) =>
         /\ \A t \in mapTx' : Tx(t).nBranchId = b
         /\ \A t \in mapTx \ mapTx' : Tx(t).nBranchId = b =>
              \E a \in mapTx :
                Tx(a).nBranchId # b /\ t \in Descendants(mapTx, a)]_vars

\* C17 witness: after removeWithoutBranchId and two removals, the pool holds
\* transactions, all of one branch id, and a transaction of that branch id
\* that spends an output of a transaction of another one is not pooled.
C17_Witness ==
  /\ lastOp.op = "removeWithoutBranchId"
  /\ nRecentlyAddedSequence - Cardinality(mapTx) >= 2
  /\ mapTx # {}
  /\ \A t \in mapTx, u \in mapTx : Tx(t).nBranchId = Tx(u).nBranchId
  /\ \E t \in mapTx, u \in TxIds \ mapTx, a \in TxIds \ mapTx :
       /\ Tx(u).nBranchId = Tx(t).nBranchId
       /\ Tx(a).nBranchId # Tx(t).nBranchId
       /\ SpendsOutputOf(u, a)

\* C18: after removeExpired(h) no pooled transaction is expired at h, no
\* pooled descendant of an expired transaction is left, and a transaction
\* that is not expired, does not fail the interest check and descends from
\* no transaction that is expired or fails it is still pooled.
C18_ExpiredRemoval ==
  [][lastOp'.op = "removeExpired" =>
     \A nBlockHeight \in ExpiryHeights, interest \in {{}, TxIds} :
       removeExpired(nBlockHeight, interest) =>
         /\ \A t \in mapTx' : ~IsExpiredTx(t, nBlockHeight)
         /\ \A t \in mapTx : IsExpiredTx(t, nBlockHeight) =>
              Descendants(mapTx, t) \cap mapTx' = {}
         /\ \A t \in mapTx :
              /\ ~IsExpiredTx(t, nBlockHeight)
              /\ t \notin interest
              /\ \A a \in mapTx : t \in Descendants(mapTx, a) =>
                   ~IsExpiredTx(a, nBlockHeight) /\ a \notin interest
              => t \in mapTx']_vars

\* C18 witness: after removeExpired and a removal, a transaction with an
\* expiry height is still pooled.
C18_Witness ==
  /\ lastOp.op = "removeExpired"
  /\ SomeRemoved
  /\ \E t \in mapTx : Tx(t).nExpiryHeight # 0

\* the history of the calls for a hash
CallsOf(h) == IF h \in DOMAIN prioritised THEN prioritised[h] ELSE << >>

\* the sum of two doubles as a real number, not rounded
ExactAdd(x, y) == Double(x.hi + y.hi, x.lo + y.lo)

\* the sum of the priority deltas of a history as a real number
RECURSIVE ExactPriority(_)
ExactPriority(hist) ==
  IF hist = << >> THEN Double(0, 0)
  ELSE ExactAdd(Head(hist).dPriorityDelta, ExactPriority(Tail(hist)))

\* the sum of the fee deltas of a history
RECURSIVE ExactFee(_)
ExactFee(hist) ==
  IF hist = << >> THEN 0 ELSE Head(hist).nFeeDelta + ExactFee(Tail(hist))

\* the priority deltas of a history added one after the other, in the order
\* of the calls, each addition rounded to a double
RECURSIVE Accumulated(_, _)
Accumulated(acc, hist) ==
  IF hist = << >> THEN acc
  ELSE Accumulated(DoubleAdd(acc, Head(hist).dPriorityDelta), Tail(hist))

\* C12: removeForBlock(vtx) leaves no mapDeltas entry and no reserve
\* annotation for any hash of vtx, pooled or not; the entries of the hashes
\* that are not in vtx and were not removed from the pool are as they were.
C12_BlockClearsPrioritisation ==
  [][lastOp'.op = "removeForBlock" =>
     \A vtx \in PrioBlocks :
       removeForBlock(vtx, << >>) =>
         /\ \A h \in Range(vtx) :
              h \notin DOMAIN mapDeltas' /\ h \notin mapReserveTransactions'
         /\ \A h \in TxIds \ (Range(vtx) \cup (mapTx \ mapTx')) :
              /\ h \in DOMAIN mapDeltas' <=> h \in DOMAIN mapDeltas
              /\ h \in DOMAIN mapDeltas => mapDeltas'[h] = mapDeltas[h]
              /\ h \in mapReserveTransactions' <=> h \in mapReserveTransactions]_vars

\* C12 witness: removeForBlock has run on a pool that never held a
\* transaction and an entry of the prioritisation table is in place.
C12_Witness ==
  /\ lastOp.op = "removeForBlock"
  /\ nRecentlyAddedSequence = 0
  /\ mapDeltas # << >>

\* C16: removeWithAnchor(root, type) with no pooled transaction that has a
\* spend of that type anchored at root leaves every member of the pool as
\* it was.
C16_AnchorNoMatchFrame ==
  [][lastOp'.op = "removeWithAnchor" =>
     \A invalidRoot \in Anchors, type \in ShieldedTypes :
       /\ removeWithAnchor(invalidRoot, type)
       /\ \A t \in mapTx : invalidRoot \notin AnchorsOf(t, type)
       => Pool' = Pool]_vars

\* C16 witness: removeWithAnchor has run, nothing was ever removed, and the
\* pool holds a transaction with a shielded spend and an entry of the
\* prioritisation table.
C16_Witness ==
  /\ lastOp.op = "removeWithAnchor"
  /\ ~SomeRemoved
  /\ \E t \in mapTx : AnchorsOf(t, "SPROUT") # {}
  /\ mapDeltas # << >>
  /\ mapReserveTransactions # {}

\* C19 (as claimed): ApplyDeltas(h) adds to its two arguments exactly the sum
\* of the priority deltas and the sum of the fee deltas of the
\* PrioritiseTransaction calls made for h since its entry was created,
\* nothing when there is no entry, and leaves the pool as it was.
C19_AccumulatesAsClaimed ==
  [][lastOp'.op = "ApplyDeltas" =>
       /\ Pool' = Pool
       /\ lastOp'.out.dPriorityDelta =
            ExactAdd(lastOp'.in.dPriorityDelta, ExactPriority(CallsOf(lastOp'.hash)))
       /\ lastOp'.out.nFeeDelta =
            lastOp'.in.nFeeDelta + ExactFee(CallsOf(lastOp'.hash))]_vars

\* C19 (amended): ApplyDeltas(h) leaves the pool as it was and adds nothing
\* when h has no entry; otherwise it adds the sum of the fee deltas, and
\* adds, in double arithmetic, the priority deltas accumulated one call
\* after the other in double arithmetic, which is the exact sum whenever
\* that sum with the argument stays below 2^53.
C19_Accumulates ==
  [][lastOp'.op = "ApplyDeltas" =>
       LET hist == CallsOf(lastOp'.hash)
           exact == ExactAdd(lastOp'.in.dPriorityDelta, ExactPriority(hist))
       IN /\ Pool' = Pool
          /\ hist = << >> <=> lastOp'.hash \notin DOMAIN mapDeltas
          /\ hist = << >> => lastOp'.out = lastOp'.in
          /\ lastOp'.out.nFeeDelta = lastOp'.in.nFeeDelta + ExactFee(hist)
          /\ lastOp'.out.dPriorityDelta =
               DoubleAdd(lastOp'.in.dPriorityDelta,
                         Accumulated(Double(0, 0), hist))
          /\ exact.hi = 0 => lastOp'.out.dPriorityDelta = exact]_vars

\* C19 witness: ApplyDeltas has run for a hash prioritised twice, with a
\* sum of 2^53 or more.
C19_Witness ==
  /\ lastOp.op = "ApplyDeltas"
  /\ Len(CallsOf(lastOp.hash)) >= 2
  /\ lastOp.out.dPriorityDelta.hi >= 1
  /\ lastOp.out.nFeeDelta >= 2000

\* C20: after ClearPrioritisation(h) a second ClearPrioritisation(h) changes
\* nothing: h has no entry in mapDeltas and no reserve annotation, every
\* other entry and every other member of the pool is as before the first.
C20_ClearIdempotent ==
  [][lastOp'.op = "ClearPrioritisation" =>
       LET h == lastOp'.hash
       IN /\ ClearPrioritisationPool(Pool', h) = Pool'
          /\ h \notin DOMAIN mapDeltas'
          /\ h \notin mapReserveTransactions'
          /\ Pool' = [Pool EXCEPT
                        !.mapDeltas = [k \in DOMAIN mapDeltas \ {h} |-> mapDeltas[k]],
                        !.mapReserveTransactions = @ \ {h}]]_vars

\* C20 witness: ClearPrioritisation has erased the entry and the reserve
\* annotation of a hash and another hash keeps its entry.
C20_Witness ==
  /\ lastOp.op = "ClearPrioritisation"
  /\ lastOp.fEntry
  /\ lastOp.fReserve
  /\ mapDeltas # << >>
  /\ \E h \in DOMAIN prioritised : Len(prioritised[h]) >= 1

\* the records the address index and the spent index hold for a hash
IndexRecords(p, h) ==
  [address |-> {k \in p.mapAddress : k[1] = h},
   addressInserted |-> IF h \in DOMAIN p.mapAddressInserted
                         THEN {p.mapAddressInserted[h]} ELSE {},
   spent |-> {o \in DOMAIN p.mapSpent : p.mapSpent[o] = h},
   spentInserted |-> IF h \in DOMAIN p.mapSpentInserted
                       THEN {p.mapSpentInserted[h]} ELSE {}]

\* a hash for which neither index holds a record
NoIndexRecords ==
  [address |-> {}, addressInserted |-> {}, spent |-> {}, spentInserted |-> {}]

\* the mapDeltas entry of a hash, if any
DeltasEntry(p, h) ==
  IF h \in DOMAIN p.mapDeltas THEN {p.mapDeltas[h]} ELSE {}

\* C21 (as claimed): every transaction an operation built on remove() takes
\* out of the pool has afterwards no mapDeltas entry and no address-index or
\* spent-index record; the entry and records of the pooled ones are untouched.
C21_RemovedLeavesNoRecords ==
  [][lastOp'.op \in RemovalOps =>
       /\ \A h \in mapTx \ mapTx' :
            /\ DeltasEntry(Pool', h) = {}
            /\ IndexRecords(Pool', h) = NoIndexRecords
       /\ \A h \in mapTx' :
            /\ DeltasEntry(Pool', h) = DeltasEntry(Pool, h)
            /\ IndexRecords(Pool', h) = IndexRecords(Pool, h)]_vars

\* C22: PrioritiseTransaction changes no member of the pool but mapDeltas,
\* whether or not the hash is pooled, and addUnchecked leaves mapDeltas, the
\* accumulated deltas of the added hash included, as it was.
C22_PrioritisationIndependent ==
  [][/\ lastOp'.op = "PrioritiseTransaction" =>
          /\ Pool' = [Pool EXCEPT !.mapDeltas = mapDeltas']
          /\ lastOp'.hash \in DOMAIN mapDeltas'
     /\ lastOp'.op = "addUnchecked" =>
          /\ mapDeltas' = mapDeltas
          /\ mapReserveTransactions' = mapReserveTransactions]_vars

\* C22 witness: the only transaction ever added has just been added and has
\* the deltas accumulated for it before it arrived.
C22_Witness ==
  /\ lastOp.op = "addUnchecked"
  /\ nRecentlyAddedSequence = 1
  /\ \E h \in mapTx : h \in DOMAIN mapDeltas /\ mapDeltas[h].second = 2000

\* C23: IsKnownReserveTransaction(h) returns true only when h is pooled and
\* annotated; for an annotated h that is not pooled it returns false and
\* leaves no annotation of h.
C23_KnownReserveSelfHeals ==
  [][lastOp'.op = "IsKnownReserveTransaction" =>
       LET h == lastOp'.hash
       IN /\ lastOp'.result => h \in mapTx /\ h \in mapReserveTransactions
          /\ lastOp'.result => h \in mapTx' /\ h \in mapReserveTransactions'
          /\ h \in mapReserveTransactions /\ h \notin mapTx =>
               ~lastOp'.result /\ h \notin mapReserveTransactions'
          /\ mapTx' = mapTx]_vars

\* C23 witness: IsKnownReserveTransaction has returned false for a hash that
\* had an annotation and is not pooled, and the annotation is gone.
C23_Witness ==
  /\ lastOp.op = "IsKnownReserveTransaction"
  /\ lastOp.fAnnotated
  /\ ~lastOp.result
  /\ lastOp.hash \notin mapTx
  /\ lastOp.hash \notin mapReserveTransactions

\* C24: PrioritiseReserveTransaction with a descriptor that is not valid
\* returns false and leaves every member of the pool as it was.
C24_InvalidDescriptorFrame ==
  [][lastOp'.op = "PrioritiseReserveTransaction" /\ ~lastOp'.fValid =>
       /\ ~lastOp'.result
       /\ Pool' = Pool]_vars

\* C24 witness: PrioritiseReserveTransaction has returned false while the
\* pool holds a transaction, an entry of mapDeltas and an annotation.
C24_Witness ==
  /\ lastOp.op = "PrioritiseReserveTransaction"
  /\ ~lastOp.fValid
  /\ ~lastOp.result
  /\ mapTx # {}
  /\ mapDeltas # << >>
  /\ mapReserveTransactions # {}

\* C25: GetCoins(txid) for a pooled txid returns the coins built from the
\* pooled transaction at MEMPOOL_HEIGHT without a call to the backing view;
\* otherwise it returns what the backing view returns, but reports a miss
\* when the backing view's coins are pruned.
C25_GetCoinsOverlay ==
  [][lastOp'.op = "GetCoins" =>
       LET txid == lastOp'.txid
           out == lastOp'.out
       IN /\ txid \in mapTx =>
               /\ out.ret
               /\ out.coins = [tx |-> txid, nHeight |-> MEMPOOL_HEIGHT,
                               vout |-> 0 .. Tx(txid).nvout - 1]
               /\ out.baseCalls = 0
          /\ txid \notin mapTx =>
               /\ out.ret <=> /\ txid \in DOMAIN base.coins
                              /\ base.coins[txid].vout # {}
               /\ out.ret => out.coins = base.coins[txid]
          /\ Pool' = Pool
          /\ base' = base]_vars

\* C25 witness: GetCoins has answered from the pool for a transaction whose
\* coins the backing view holds too.
C25_Witness ==
  /\ lastOp.op = "GetCoins"
  /\ lastOp.txid \in mapTx
  /\ lastOp.txid \in DOMAIN base.coins
  /\ lastOp.out.coins.nHeight = MEMPOOL_HEIGHT

\* C26: GetNullifier(nf, type) is true exactly when nf is a key of the pool's
\* nullifier map of that type or the backing view reports it spent, and
\* HaveCoins(txid) exactly when txid is pooled or the backing view has coins
\* for it; neither changes the pool or the backing view.
C26_NullifierAndHaveCoins ==
  [][/\ lastOp'.op = "GetNullifier" =>
          /\ lastOp'.out <=>
               \/ /\ lastOp'.type = "SPROUT"
                  /\ lastOp'.nf \in DOMAIN mapSproutNullifiers
               \/ /\ lastOp'.type = "SAPLING"
                  /\ lastOp'.nf \in DOMAIN mapSaplingNullifiers
               \/ lastOp'.nf \in base.nullifiers[lastOp'.type]
          /\ Pool' = Pool
          /\ base' = base
     /\ lastOp'.op = "HaveCoins" =>
          /\ lastOp'.out <=>
               lastOp'.txid \in mapTx \/ lastOp'.txid \in DOMAIN base.coins
          /\ Pool' = Pool
          /\ base' = base]_vars

\* C26 witness: GetNullifier has answered true for a nullifier of a pooled
\* transaction that the backing view does not report spent.
C26_Witness ==
  /\ lastOp.op = "GetNullifier"
  /\ lastOp.out
  /\ lastOp.nf \notin base.nullifiers[lastOp.type]
  /\ \E h \in mapTx :
       lastOp.nf \in (IF lastOp.type = "SPROUT" THEN SproutNullifiers(h)
                                                ELSE SaplingNullifiers(h))

\* C29: nRecentlyAddedSequence goes up by exactly one on every addUnchecked
\* and never goes down, nNotifiedSequence never exceeds it, and
\* IsFullyNotified returns true only when mapRecentlyAddedTx is empty.
C29_NotificationFence ==
  [][/\ lastOp'.op = "addUnchecked" =>
          nRecentlyAddedSequence' = nRecentlyAddedSequence + 1
     /\ nRecentlyAddedSequence' >= nRecentlyAddedSequence
     /\ nNotifiedSequence' <= nRecentlyAddedSequence'
     /\ lastOp'.op = "IsFullyNotified" /\ lastOp'.result =>
          mapRecentlyAddedTx' = {}]_vars

\* C29 witness: IsFullyNotified has returned true after transactions were
\* added and the notified sequence number caught up.
C29_Witness ==
  /\ lastOp.op = "IsFullyNotified"
  /\ lastOp.result
  /\ nNotifiedSequence >= 2
  /\ mapTx # {}

\* C30 (as claimed): a SyncWithWallets call that fails in any way leaves the
\* pool as it was and the rest of the batch to be delivered, and the call of
\* NotifyRecentlyAdded ends with nNotifiedSequence at the sequence number it
\* read for the batch.
C30_DeliveryFailuresAsClaimed ==
  [][/\ lastOp'.op = "SyncWithWallets" =>
          /\ Pool' = Pool
          /\ notify'.pc = "deliver"
          /\ notify'.txs = Tail(notify.txs)
     /\ notify.pc = "deliver" /\ notify'.pc = "idle" =>
          nNotifiedSequence' = notify.recentlyAddedSequence]_vars

\* C30 (amended): a SyncWithWallets call leaves the pool as it was whatever
\* it does; when it returns or throws anything but boost::thread_interrupted
\* the rest of the batch is still to be delivered, and the call ends with
\* nNotifiedSequence at the sequence number read for the batch on regtest
\* and unchanged on other networks; boost::thread_interrupted ends the call
\* at once with the rest undelivered and nNotifiedSequence unchanged.
C30_DeliveryFailures ==
  [][/\ lastOp'.op = "SyncWithWallets" =>
          /\ Pool' = Pool
          /\ lastOp'.outcome # "thread_interrupted" =>
               /\ notify'.pc = "deliver"
               /\ notify'.txs = Tail(notify.txs)
          /\ lastOp'.outcome = "thread_interrupted" => notify'.pc = "idle"
     /\ lastOp'.op = "NotifyAdvance" =>
          /\ notify.txs = << >>
          /\ nNotifiedSequence' =
               IF config.regtest THEN notify.recentlyAddedSequence
               ELSE nNotifiedSequence
          /\ Pool' = [Pool EXCEPT !.nNotifiedSequence = nNotifiedSequence']]_vars

\* C30 witness: a SyncWithWallets call has thrown a std::exception with
\* another transaction of the batch still to deliver.
C30_Witness ==
  /\ lastOp.op = "SyncWithWallets"
  /\ lastOp.outcome = "std::exception"
  /\ notify.pc = "deliver"
  /\ notify.txs # << >>
  /\ mapTx # {}

\* the operations of SpecConc that read the pool
ReadOps ==
  {"GetTransactionsUpdated", "lookup", "nullifierExists", "check", "checkLocked"}

\* C27 (as claimed): every operation that reads the pool reads it while no
\* other call holds the lock cs, so never while an addUnchecked or a remove
\* is partly applied.
C27_ReadsUnderLock ==
  [][lastOp'.op \in ReadOps => conc.cs = "" /\ ~PartlyApplied(conc)]_vars

\* C28: the update counter never goes down, and a read made under the lock
\* finds the counter at or above the value GetTransactionsUpdated returned
\* before, every insertion and removal counted in it completed, and the pool
\* as those insertions and removals leave it when each is applied whole.
C28_UpdateCounterFence ==
  [][/\ nTransactionsUpdated' >= nTransactionsUpdated
     /\ lastOp'.op \in {"GetTransactionsUpdated", "lookup", "checkLocked"} =>
          /\ nTransactionsUpdated >= conc.seen
          /\ nTransactionsUpdated = conc.done
          /\ Pool = conc.committed
     /\ lastOp'.op = "checkLocked" => lastOp'.passes]_vars

\* C28 witness: lookup finds a transaction under the lock after
\* GetTransactionsUpdated returned 2 and a further call completed.
C28_Witness ==
  /\ lastOp.op = "lookup"
  /\ lastOp.result
  /\ conc.seen = 2
  /\ conc.done = 3
  /\ mapTx # {}

\* C31: ReadFeeEstimates on a stream whose required version exceeds the
\* client's returns false without handing the stream to the estimator and
\* leaves the pool and the estimator as they were; ReadFeeEstimates and
\* WriteFeeEstimates leave the pool as it was, and return false whenever
\* reading or writing failed.
C31_FeeEstimatesFailSoft ==
  [][/\ lastOp'.op = "ReadFeeEstimates" =>
          /\ Pool' = Pool
          /\ lastOp'.result \in BOOLEAN
          /\ lastOp'.threw => ~lastOp'.result
          /\ Len(lastOp'.filein) >= 2 /\ lastOp'.filein[1] > CLIENT_VERSION =>
               /\ ~lastOp'.result
               /\ ~lastOp'.handed
               /\ estimator' = estimator
     /\ lastOp'.op = "WriteFeeEstimates" =>
          /\ Pool' = Pool
          /\ estimator' = estimator
          /\ lastOp'.result \in BOOLEAN
          /\ lastOp'.threw => ~lastOp'.result]_vars

\* C31 witness: a complete file that requires a newer version was refused
\* over a pool that holds transactions and a prioritisation entry, with
\* estimates loaded before.
C31_Witness ==
  /\ lastOp.op = "ReadFeeEstimates"
  /\ Len(lastOp.filein) = 3
  /\ lastOp.filein[1] > CLIENT_VERSION
  /\ ~lastOp.result
  /\ estimator = 2
  /\ mapTx # {}
  /\ mapDeltas # << >>

\* C32: addUnchecked of a transaction whose hash is not pooled returns true
\* and pools the transaction, whether or not one of its outpoints or
\* nullifiers is recorded in an index for another pooled transaction.
C32_AddUncheckedCannotReject ==
  [][lastOp'.op = "addUnchecked" /\ lastOp'.hash \notin mapTx =>
       /\ lastOp'.result
       /\ mapTx' = mapTx \cup {lastOp'.hash}]_vars

\* C32 witness: transaction 4 was added while transaction 1, which spends
\* the same outpoint, is pooled.
C32_Witness ==
  /\ lastOp.op = "addUnchecked"
  /\ lastOp.hash = 4
  /\ ~lastOp.fChecksPass
  /\ lastOp.result
  /\ {1, 4} \subseteq mapTx
  /\ mapNextTx[<<0, 0>>].ptx = 4

\* the transactions of a list
Listed(waiting) == {waiting[i] : i \in DOMAIN waiting}

\* every input of every transaction of the list is available when the loop
\* begins or is an output of another transaction of the list, and no two
\* transactions of the list spend the same outpoint
Resolvable(e) ==
  /\ \A t \in Listed(e.waiting) : \A o \in Prevouts(t) :
       o \in e.available \/ o[1] \in Listed(e.waiting)
  /\ \A t, u \in Listed(e.waiting) : t # u => Prevouts(t) \cap Prevouts(u) = {}

\* the passes a loop started with n deferred transactions may take
MaxPasses(n) == (n * (n + 1)) \div 2

\* C33: started from a list whose inputs are all resolvable, the loop over
\* waitingOnDependants never fails its assertion on stepsSinceLastRemove and
\* ends with every transaction of the list replayed; started from any list
\* it ends or fails that assertion within a number of passes fixed by the
\* length of the list, and it fails it when the list is not resolvable.
C33_WorklistTerminates ==
  /\ audit.iterations <= MaxPasses(Len(audit.entry.waiting))
  /\ Resolvable(audit.entry) => audit.pc # "asserted"
  /\ audit.pc = "loop" /\ audit.waiting = << >> =>
       /\ Resolvable(audit.entry)
       /\ audit.replayed = Listed(audit.entry.waiting)
  /\ audit.pc = "asserted" => audit.line = 602 /\ ~Resolvable(audit.entry)

\* C33 witness: the loop has replayed transactions 3, 2 and 1 from a list
\* that began with 3, a child of 2 and of 1, after deferring it twice.
C33_Witness ==
  /\ audit.pc = "loop"
  /\ audit.waiting = << >>
  /\ audit.entry.waiting = << 3, 2, 1 >>
  /\ audit.replayed = {1, 2, 3}
  /\ audit.iterations = 6

\* C34: a call of check(), whether it returns at once or runs, leaves every
\* member of the pool and the coins view it was given as they were.
C34_CheckIsPureAudit ==
  [][lastOp'.op \in {"check", "checkRetry", "checkEnd"} =>
       /\ Pool' = Pool
       /\ base' = base
       /\ lastOp'.op = "check" /\ ~lastOp'.ran => audit' = audit]_vars

\* C34 witness: check() has returned after replaying transactions 1, 2 and
\* 3 on its overlay, the last two from the list of deferred transactions.
C34_Witness ==
  /\ lastOp.op = "checkEnd"
  /\ lastOp.replayed = {1, 2, 3}
  /\ lastOp.iterations >= 2
  /\ audit.pc = "idle"
  /\ mapTx = {1, 2, 3}

\* C35: every call of remove() comes to an end, and each transaction it takes
\* out of the pool is appended to the caller's list exactly once and counted
\* once in the total size, the usage and the update counter, also when the
\* walk enqueued it more than once.
C35_RemovedOnce ==
  [][lastOp'.op = "remove" =>
     LET gone == mapTx \ mapTx'
     IN /\ mapTx' \subseteq mapTx
        /\ \E removedIn \in RemovedInits :
             /\ Len(removed') = Len(removedIn) + Cardinality(gone)
             /\ SubSeq(removed', 1, Len(removedIn)) = removedIn
             /\ \A h \in gone :
                  Cardinality({i \in Positions(removed', h) :
                                 i > Len(removedIn)}) = 1
        /\ totalTxSize' = totalTxSize - SumTxSize(gone)
        /\ cachedInnerUsage' = cachedInnerUsage - SumUsageSize(gone)
        /\ nTransactionsUpdated' = nTransactionsUpdated + Cardinality(gone)]_vars

\* C35 witness: a recursive remove of transaction 1 has taken out 1, 2 and 3;
\* 3 spends an output of 1 and one of 2 and was enqueued for both.
C35_Witness ==
  /\ lastOp = Op("remove", TRUE, TRUE)
  /\ removed = << 1, 2, 3 >>
  /\ SpendsOutputOf(3, 1) /\ SpendsOutputOf(3, 2)
  /\ 3 \notin mapTx

(***************************************************************************)
(* The order of remove()'s walk, explored over transaction 1, its children *)
(* 2, 3 and 7, and 8, which spends an output of 1 and the output of 7.     *)
(***************************************************************************)
\* the transactions of the exploration of the walk order
WalkHashes == {1, 2, 3, 7, 8}

NextWalk ==
  \/ \E hash \in WalkHashes :
       addUnchecked(hash) /\ nTransactionsUpdated' <= MaxWalkUpdated
  \/ \E origTx \in WalkHashes, fRecursive \in BOOLEAN, removedIn \in RemovedInits :
       remove(origTx, fRecursive, removedIn)
         /\ nTransactionsUpdated' <= MaxWalkUpdated

SpecWalk == Init /\ [][NextWalk]_vars

\* the positions of the caller's list a call of remove() has filled with
\* transactions it took out of the pool
NewPositions(gone, list) == {i \in DOMAIN list : list[i] \in gone}

\* C36 as claimed: the list of a recursive remove of a pooled transaction is a
\* topological order: no removed transaction comes before a removed ancestor
\* of it.
C36_TopologicalOrder ==
  [][lastOp' = Op("remove", TRUE, TRUE) =>
     LET gone == mapTx \ mapTx'
     IN \A i \in NewPositions(gone, removed'), j \in NewPositions(gone, removed') :
          i < j => removed'[i] \notin Descendants(mapTx, removed'[j])]_vars

\* C36: the list of a recursive remove is in the order of a breadth-first
\* walk from origTx: origTx, when pooled, is the first transaction listed,
\* and every other listed transaction spends an output of origTx or comes
\* after at least one listed transaction it spends an output of.
C36_BreadthFirstOrder ==
  [][lastOp'.op = "remove" /\ lastOp'.fRecursive =>
     \A origTx \in WalkHashes, removedIn \in RemovedInits :
       remove(origTx, TRUE, removedIn) =>
         LET gone == mapTx \ mapTx'
             new == {j \in DOMAIN removed' : j > Len(removedIn)}
         IN /\ \A j \in new : removed'[j] \in gone
            /\ origTx \in mapTx => removed'[Len(removedIn) + 1] = origTx
            /\ \A j \in new :
                 \/ removed'[j] = origTx
                 \/ SpendsOutputOf(removed'[j], origTx)
                 \/ \E i \in new :
                      i < j /\ SpendsOutputOf(removed'[j], removed'[i])]_vars

\* C36 witness: remove(1, recursive) has listed 8, which spends outputs of 1
\* and of 7, after 1 and before 7.
C36_Witness ==
  /\ lastOp = Op("remove", TRUE, TRUE)
  /\ removed = << 1, 8, 7 >>
  /\ SpendsOutputOf(8, 1) /\ SpendsOutputOf(8, 7)

C38_RecentlyAddedArePooled ==
  /\ mapRecentlyAddedTx \subseteq mapTx
  /\ lastOp.op = "NotifyRecentlyAdded" => Range(notify.txs) \subseteq mapTx

\* C39: a transaction addUnchecked has added is handed to SyncWithWallets at
\* most once: addUnchecked lists it, whatever takes it out of the pool
\* before the next drain unlists it and it is then never handed over, the
\* first NotifyRecentlyAdded that starts after the add takes the whole list
\* as its batch and leaves the list empty, and every transaction of the
\* batch is handed over by that call.
C39_DrainSemantics ==
  [][/\ lastOp'.op = "addUnchecked" =>
          mapRecentlyAddedTx' = mapRecentlyAddedTx \cup (mapTx' \ mapTx)
     /\ mapTx \ mapTx' # {} =>
          mapRecentlyAddedTx' = mapRecentlyAddedTx \ (mapTx \ mapTx')
     /\ lastOp'.op = "NotifyRecentlyAdded" =>
          /\ mapRecentlyAddedTx' = {}
          /\ notify'.txs = InOrder(mapRecentlyAddedTx)
          /\ Range(notify'.txs) \subseteq mapTx
     /\ lastOp'.op = "SyncWithWallets" =>
          /\ lastOp'.tx = Head(notify.txs)
          /\ notify'.pc = "deliver"
          /\ notify'.txs = Tail(notify.txs)
     /\ lastOp'.op \notin {"addUnchecked", "remove", "clear", "NotifyRecentlyAdded"} =>
          mapRecentlyAddedTx' = mapRecentlyAddedTx]_vars

\* C40 as claimed: with two threads in NotifyRecentlyAdded on regtest,
\* nNotifiedSequence never goes down, and when a call returns with the other
\* thread idle and no addUnchecked since the call read the sequence number,
\* IsFullyNotified is true.
C40_ConcurrentNotify ==
  [][/\ nNotifiedSequence' >= nNotifiedSequence
     /\ lastOp'.op = "NotifyAdvance" /\ peer.pc = "idle"
           /\ notify.recentlyAddedSequence = nRecentlyAddedSequence =>
          IsFullyNotifiedOut(Pool')
     /\ lastOp'.op = "peer.NotifyAdvance" /\ notify.pc = "idle"
           /\ peer.recentlyAddedSequence = nRecentlyAddedSequence =>
          IsFullyNotifiedOut(Pool')]_vars

\* the sequence number the thread that makes a step read for its batch
SequenceRead(op) ==
  IF op = "NotifyAdvance" THEN notify.recentlyAddedSequence
  ELSE peer.recentlyAddedSequence

\* C40: with two threads in NotifyRecentlyAdded on regtest, a call that
\* returns sets nNotifiedSequence to the sequence number it read, whatever
\* the other call has written; nNotifiedSequence goes down only in such a
\* step of a call that read its number before an addUnchecked and returns
\* after a call that read a later one; it never exceeds
\* nRecentlyAddedSequence, and IsFullyNotified is true after a return with
\* no addUnchecked since the returning call read its number.
C40_LastWriterWins ==
  [][/\ lastOp'.op \in {"NotifyAdvance", "peer.NotifyAdvance"} =>
          /\ nNotifiedSequence' = SequenceRead(lastOp'.op)
          /\ SequenceRead(lastOp'.op) = nRecentlyAddedSequence =>
               IsFullyNotifiedOut(Pool')
     /\ lastOp'.op \notin {"NotifyAdvance", "peer.NotifyAdvance"} =>
          nNotifiedSequence' = nNotifiedSequence
     /\ nNotifiedSequence' < nNotifiedSequence =>
          SequenceRead(lastOp'.op) < nRecentlyAddedSequence
     /\ nNotifiedSequence' <= nRecentlyAddedSequence']_vars

\* C40 witness: a call has returned with the other thread idle and the list
\* empty, and nNotifiedSequence stands below nRecentlyAddedSequence: the call
\* that returned last read its number before the last addUnchecked.
C40_Witness ==
  /\ lastOp.op \in {"NotifyAdvance", "peer.NotifyAdvance"}
  /\ notify.pc = "idle" /\ peer.pc = "idle"
  /\ mapRecentlyAddedTx = {}
  /\ nRecentlyAddedSequence >= 1
  /\ nNotifiedSequence < nRecentlyAddedSequence

====
